---- MODULE Spec2Model ----
(***************************************************************************)
(* The channel search engine of src/parser: the fuzzy matcher, the         *)
(* sentence extractor, the file cache of search results and the search     *)
(* coroutine search_channel_messages with its suspension points.           *)
(*                                                                         *)
(* A string is a sequence of one-character strings.  Cyrillic letters are  *)
(* written as the tokens "cy_a", "cy_o", ... (one token is one character). *)
(***************************************************************************)
EXTENDS Integers, Sequences, FiniteSets, TLC

\* Python's None.
None == "None"

\* Whitespace characters of the alphabet (str.strip, str.split, \s).
Whitespace == {" ", "\n"}

\* The sentence terminators of sentence_pattern, [.!?].
Terminators == {".", "!", "?"}

\* Upper-case letters of the alphabet and their str.lower() images.
UpperToLower == ("P" :> "p") @@ ("B" :> "b")

\* Characters matched by \w: letters, digits and the underscore.
WordChars ==
    {"a", "b", "c", "d", "e", "f", "g", "h", "i", "j", "k", "l", "m", "n",
     "o", "p", "q", "r", "s", "t", "u", "v", "w", "x", "y", "z", "_", "1",
     "cy_a", "cy_v", "cy_e", "cy_i", "cy_j", "cy_m", "cy_o", "cy_u", "cy_h",
     "cy_y", "cy_yu", "cy_ya", "cy_g", "cy_k", "cy_t"}
        \cup DOMAIN UpperToLower

\* str.lower() on one character.
LowerChar(c) == IF c \in DOMAIN UpperToLower THEN UpperToLower[c] ELSE c

\* str.lower()
lower(s) == [i \in 1..Len(s) |-> LowerChar(s[i])]

\* keyword in word (substring test, true for the empty keyword).
IsSubstring(k, w) ==
    \E i \in 0..(Len(w) - Len(k)) : SubSeq(w, i + 1, i + Len(k)) = k

\* str.endswith
EndsWith(s, e) ==
    Len(e) <= Len(s) /\ SubSeq(s, Len(s) - Len(e) + 1, Len(s)) = e

\* The endings list of fuzzy_match_word, in the order and with the
\* repetitions of the source.
endings ==
    << <<"cy_a">>, <<"cy_y">>, <<"cy_o", "cy_v">>, <<"cy_e", "cy_j">>,
       <<"cy_a", "cy_m">>, <<"cy_a", "cy_m", "cy_i">>, <<"cy_a", "cy_h">>,
       <<"cy_o", "cy_m">>, <<"cy_o", "cy_g", "cy_o">>,
       <<"cy_o", "cy_m", "cy_u">>, <<"cy_i", "cy_m">>, <<"cy_e", "cy_m">>,
       <<"cy_o", "cy_g", "cy_o">>, <<"cy_e", "cy_m", "cy_u">>,
       <<"cy_i", "cy_m", "cy_i">>, <<"cy_i", "cy_m", "cy_i">>,
       <<"cy_o", "cy_j">>, <<"cy_u", "cy_yu">>, <<"cy_yu">>,
       <<"cy_i", "cy_e">>, <<"cy_i", "cy_h">>, <<"cy_i", "cy_m">>,
       <<"cy_y", "cy_m", "cy_i">>, <<"cy_a", "cy_ya">>, <<"cy_ya", "cy_ya">>,
       <<"cy_o", "cy_e">>, <<"cy_e", "cy_e">>, <<"cy_i", "cy_e">>,
       <<"cy_e", "cy_j">>, <<"cy_u", "cy_yu">>, <<"cy_yu", "cy_yu">>,
       <<"cy_i", "cy_e">>, <<"cy_i", "cy_h">>, <<"cy_i", "cy_m">> >>

\* min(insertions, deletions)
Min3_without_substitutions(a, b, c) == IF a <= b THEN a ELSE b

Min3(a, b, c) ==
    IF a <= b /\ a <= c THEN a ELSE IF b <= c THEN b ELSE c

\* The inner loop of levenshtein_distance: current_row, extended from
\* position j of s2 on.  Sequence index k holds the Python index k - 1.
RECURSIVE current_row_from(_, _, _, _, _)
current_row_from(current_row, previous_row, c1, s2, j) ==
    IF j > Len(s2)
    THEN current_row
    ELSE LET insertions == previous_row[j + 1] + 1
             deletions == current_row[j] + 1
             substitutions ==
                 previous_row[j] + (IF c1 # s2[j] THEN 1 ELSE 0)
         IN  current_row_from(
                 Append(current_row, Min3(insertions, deletions, substitutions)),
                 previous_row, c1, s2, j + 1)

\* The outer loop of levenshtein_distance: the last row, from character i
\* of s1 on.
RECURSIVE previous_row_from(_, _, _, _)
previous_row_from(previous_row, s1, s2, i) ==
    IF i > Len(s1)
    THEN previous_row
    ELSE previous_row_from(
             current_row_from(<<i>>, previous_row, s1[i], s2, 1), s1, s2, i + 1)

\* levenshtein_distance once len(s1) >= len(s2) holds.
levenshtein_ordered(s1, s2) ==
    IF Len(s2) = 0
    THEN Len(s1)
    ELSE LET last == previous_row_from([k \in 1..(Len(s2) + 1) |-> k - 1], s1, s2, 1)
         IN  last[Len(last)]

levenshtein_distance(s1, s2) ==
    IF Len(s1) < Len(s2)
    THEN levenshtein_ordered(s2, s1)
    ELSE levenshtein_ordered(s1, s2)

\* The substring check: keyword_lower in word_lower.
substring_match_prefix(word_lower, keyword_lower) ==
    Len(keyword_lower) <= Len(word_lower)
        /\ SubSeq(word_lower, 1, Len(keyword_lower)) = keyword_lower
substring_match(word_lower, keyword_lower) == IsSubstring(keyword_lower, word_lower)

\* The loop over the endings.
suffix_match_unchecked(word_lower, keyword_lower) ==
    \E e \in 1..Len(endings) :
        \/ word_lower = keyword_lower \o endings[e]
        \/ /\ Len(endings[e]) <= Len(keyword_lower)
           /\ word_lower =
                  SubSeq(keyword_lower, 1, Len(keyword_lower) - Len(endings[e]))
suffix_match(word_lower, keyword_lower) ==
    \E e \in 1..Len(endings) :
        \/ word_lower = keyword_lower \o endings[e]
        \/ /\ EndsWith(keyword_lower, endings[e])
           /\ word_lower =
                  SubSeq(keyword_lower, 1, Len(keyword_lower) - Len(endings[e]))

\* The Levenshtein check for short words.
distance_match_bounds_swapped(word, keyword) ==
    /\ Len(keyword) <= 8
    /\ Len(word) <= 6
    /\ levenshtein_distance(lower(word), lower(keyword)) <= 2
distance_match(word, keyword) ==
    /\ Len(keyword) <= 6
    /\ Len(word) <= 8
    /\ levenshtein_distance(lower(word), lower(keyword)) <= 2

fuzzy_match_word(word, keyword) ==
    LET word_lower == lower(word)
        keyword_lower == lower(keyword)
    IN  \/ word_lower = keyword_lower
        \/ substring_match(word_lower, keyword_lower)
        \/ suffix_match(word_lower, keyword_lower)
        \/ distance_match(word, keyword)

\* str.strip()
RECURSIVE lstrip(_)
lstrip(s) ==
    IF s # <<>> /\ Head(s) \in Whitespace THEN lstrip(Tail(s)) ELSE s

RECURSIVE rstrip(_)
rstrip(s) ==
    IF s # <<>> /\ s[Len(s)] \in Whitespace
    THEN rstrip(SubSeq(s, 1, Len(s) - 1))
    ELSE s

strip(s) == rstrip(lstrip(s))

\* The end of the whitespace run that starts at position i of s.
RECURSIVE RunEnd(_, _)
RunEnd(s, i) ==
    IF i < Len(s) /\ s[i + 1] \in Whitespace THEN RunEnd(s, i + 1) ELSE i

\* re.split(r'[.!?]\s+', s): the terminator is part of the separator.
RECURSIVE re_split_from_consuming(_, _, _, _)
re_split_from_consuming(s, i, start, acc) ==
    IF i > Len(s)
    THEN Append(acc, SubSeq(s, start, Len(s)))
    ELSE IF i >= 2 /\ s[i - 1] \in Terminators /\ s[i] \in Whitespace
         THEN re_split_from_consuming(s, RunEnd(s, i) + 1, RunEnd(s, i) + 1,
                                      Append(acc, SubSeq(s, start, i - 2)))
         ELSE re_split_from_consuming(s, i + 1, start, acc)

\* re.split(r'(?<=[.!?])\s+', s): the scan is at position i, the piece being
\* read starts at position start.
RECURSIVE re_split_from(_, _, _, _)
re_split_from(s, i, start, acc) ==
    IF i > Len(s)
    THEN Append(acc, SubSeq(s, start, Len(s)))
    ELSE IF i >= 2 /\ s[i - 1] \in Terminators /\ s[i] \in Whitespace
         THEN re_split_from(s, RunEnd(s, i) + 1, RunEnd(s, i) + 1,
                            Append(acc, SubSeq(s, start, i - 1)))
         ELSE re_split_from(s, i + 1, start, acc)

re_split_sentences(s) == re_split_from(s, 1, 1, <<>>)

\* The end of the run of characters of class cls that starts at position i.
RECURSIVE ClassRunEnd(_, _, _)
ClassRunEnd(s, i, cls) ==
    IF i < Len(s) /\ s[i + 1] \in cls THEN ClassRunEnd(s, i + 1, cls) ELSE i

\* re.findall(r'\b\w+\b', s): the maximal runs of word characters.
RECURSIVE re_findall_words_from(_, _, _)
re_findall_words_from(s, i, acc) ==
    IF i > Len(s)
    THEN acc
    ELSE IF s[i] \in WordChars
         THEN re_findall_words_from(s, ClassRunEnd(s, i, WordChars) + 1,
                  Append(acc, SubSeq(s, i, ClassRunEnd(s, i, WordChars))))
         ELSE re_findall_words_from(s, i + 1, acc)

re_findall_words(s) == re_findall_words_from(s, 1, <<>>)

\* str.split(): the maximal runs of non-whitespace characters.
RECURSIVE str_split_from(_, _, _)
str_split_from(s, i, acc) ==
    IF i > Len(s)
    THEN acc
    ELSE IF s[i] \in Whitespace
         THEN str_split_from(s, i + 1, acc)
         ELSE LET stop == CHOOSE k \in i..Len(s) :
                              /\ \A m \in i..k : s[m] \notin Whitespace
                              /\ k = Len(s) \/ s[k + 1] \in Whitespace
              IN  str_split_from(s, stop + 1, Append(acc, SubSeq(s, i, stop)))

str_split(s) == str_split_from(s, 1, <<>>)

\* sep.join(parts)
RECURSIVE str_join(_, _)
str_join(sep, parts) ==
    IF parts = <<>>
    THEN <<>>
    ELSE IF Len(parts) = 1
         THEN parts[1]
         ELSE parts[1] \o sep \o str_join(sep, Tail(parts))

\* Whether one sentence has a word that matches one of the keywords.
has_match_always(sentence, keywords) == TRUE
has_match(sentence, keywords) ==
    LET words == re_findall_words(strip(lower(sentence)))
    IN  \E w \in 1..Len(words) : \E k \in 1..Len(keywords) :
            fuzzy_match_word(words[w], keywords[k])

\* The loop of extract_relevant_sentences over the sentences from i on.
RECURSIVE relevant_from(_, _, _, _)
relevant_from(sentences, keywords, i, relevant_sentences) ==
    IF i > Len(sentences)
    THEN relevant_sentences
    ELSE LET sentence == sentences[i]
             clean_sentence == str_join(<<" ">>, str_split(sentence))
         IN  IF /\ strip(lower(sentence)) # <<>>
                /\ has_match(sentence, keywords)
                /\ clean_sentence # <<>>
                /\ Len(clean_sentence) > 10
             THEN relevant_from(sentences, keywords, i + 1,
                                Append(relevant_sentences, clean_sentence))
             ELSE relevant_from(sentences, keywords, i + 1, relevant_sentences)

\* Without keywords every sentence of the text is taken.
extract_every_sentence_without_keywords(text, keywords) ==
    IF text = <<>>
    THEN <<>>
    ELSE IF keywords = <<>>
         THEN re_split_sentences(strip(text))
         ELSE relevant_from(re_split_sentences(strip(text)), keywords, 1, <<>>)

extract_relevant_sentences(text, keywords) ==
    IF text = <<>> \/ keywords = <<>>
    THEN <<>>
    ELSE relevant_from(re_split_sentences(strip(text)), keywords, 1, <<>>)

\* Code points of the characters that occur in channel names and keywords
\* (Python compares strings by code point).
Ord ==
    ("@" :> 64) @@ ("P" :> 80) @@ ("a" :> 97) @@ ("b" :> 98) @@ ("g" :> 103)
        @@ ("h" :> 104) @@ ("n" :> 110) @@ ("o" :> 111) @@ ("p" :> 112)
        @@ ("t" :> 116) @@ ("y" :> 121)

\* s < t for two strings.
RECURSIVE StrLess(_, _)
StrLess(s, t) ==
    IF t = <<>>
    THEN FALSE
    ELSE IF s = <<>>
         THEN TRUE
         ELSE IF Head(s) = Head(t)
              THEN StrLess(Tail(s), Tail(t))
              ELSE Ord[Head(s)] < Ord[Head(t)]

\* One string placed into a sorted list of strings.
RECURSIVE Insert(_, _)
Insert(s, sorted_list) ==
    IF sorted_list = <<>>
    THEN <<s>>
    ELSE IF StrLess(s, Head(sorted_list))
         THEN <<s>> \o sorted_list
         ELSE <<Head(sorted_list)>> \o Insert(s, Tail(sorted_list))

\* sorted(list) for a list of strings.
RECURSIVE sorted(_)
sorted(list) ==
    IF list = <<>> THEN <<>> ELSE Insert(list[Len(list)], sorted(SubSeq(list, 1, Len(list) - 1)))

\* get_cache_key: the string that is hashed, as the triple of its parts
\* (the MD5 digest of cache_string stands for cache_string itself).
get_cache_key_keywords_as_given(channels, keywords, limit) ==
    <<sorted(channels), keywords, limit>>
get_cache_key(channels, keywords, limit) ==
    <<sorted(channels), sorted(keywords), limit>>

\* CACHE_TTL, in seconds.
CACHE_TTL == 3600

\* The fields of the SearchResult dataclass.
SearchResultFields == {"channel", "message_id", "date", "snippet", "link"}

\* The dictionary save_cached_results writes for one result.
result_to_item_without_link(result) ==
    [channel |-> result.channel,
     message_id |-> result.message_id,
     date |-> result.date,
     snippet |-> result.snippet]
result_to_item(result) ==
    [channel |-> result.channel,
     message_id |-> result.message_id,
     date |-> result.date,
     snippet |-> result.snippet,
     link |-> result.link]

\* SearchResult(**item) raises TypeError unless the keys of item are the
\* fields of the dataclass.
item_is_result(item) == DOMAIN item = SearchResultFields

\* SearchResult(**item)
item_to_result_positional(item) ==
    [channel |-> item.channel,
     message_id |-> item.message_id,
     date |-> item.date,
     snippet |-> item.link,
     link |-> item.snippet]
item_to_result(item) ==
    [channel |-> item.channel,
     message_id |-> item.message_id,
     date |-> item.date,
     snippet |-> item.snippet,
     link |-> item.link]

\* The test of load_cached_results on the age of a record.
cache_expired_at_ttl(now_, timestamp) == now_ - timestamp >= CACHE_TTL
cache_expired_always(now_, timestamp) == TRUE
cache_expired(now_, timestamp) == now_ - timestamp > CACHE_TTL

\* The cache directory is a function from the keys that have a file to the
\* data of the file, [timestamp, results].
\* save_cached_results: the directory after the write.
save_cached_results_unless_empty(cache_dir, cache_key, results, now_) ==
    IF results = <<>>
    THEN cache_dir
    ELSE [k \in DOMAIN cache_dir \cup {cache_key} |->
            IF k = cache_key
            THEN [timestamp |-> now_,
                  results |-> [i \in 1..Len(results) |-> result_to_item(results[i])]]
            ELSE cache_dir[k]]
save_cached_results_merging(cache_dir, cache_key, results, now_) ==
    [k \in DOMAIN cache_dir \cup {cache_key} |->
        IF k = cache_key
        THEN [timestamp |-> now_,
              results |->
                  (IF k \in DOMAIN cache_dir THEN cache_dir[k].results ELSE <<>>)
                      \o [i \in 1..Len(results) |-> result_to_item(results[i])]]
        ELSE cache_dir[k]]
save_cached_results(cache_dir, cache_key, results, now_) ==
    LET data == [timestamp |-> now_,
                 results |-> [i \in 1..Len(results) |-> result_to_item(results[i])]]
    IN  [k \in DOMAIN cache_dir \cup {cache_key} |->
            IF k = cache_key THEN data ELSE cache_dir[k]]

\* A file that json.load rejects (a truncated or damaged record).
Unparseable == [unparseable |-> TRUE]

\* json.load(f) returns a dictionary with 'timestamp' and 'results'.
parses(data) == DOMAIN data = {"timestamp", "results"}

\* load_cached_results: the value returned ([is_none, results]) ...
load_cached_results(cache_dir, cache_key, now_) ==
    IF cache_key \notin DOMAIN cache_dir
    THEN [is_none |-> TRUE, results |-> <<>>]
    ELSE LET data == cache_dir[cache_key]
         IN  IF ~parses(data)
             THEN [is_none |-> TRUE, results |-> <<>>]
             ELSE IF cache_expired(now_, data.timestamp)
             THEN [is_none |-> TRUE, results |-> <<>>]
             ELSE IF \E i \in 1..Len(data.results) : ~item_is_result(data.results[i])
                  THEN [is_none |-> TRUE, results |-> <<>>]
                  ELSE [is_none |-> FALSE,
                        results |-> [i \in 1..Len(data.results) |->
                                        item_to_result(data.results[i])]]

\* ... and the directory it leaves: an expired record is unlinked.
load_unlinks(cache_dir, cache_key, now_) ==
    IF /\ cache_key \in DOMAIN cache_dir
       /\ parses(cache_dir[cache_key])
       /\ cache_expired(now_, cache_dir[cache_key].timestamp)
    THEN [k \in DOMAIN cache_dir \ {cache_key} |-> cache_dir[k]]
    ELSE cache_dir

\* The faults of the file system: open(cache_file, 'r') raises; open(cache_file,
\* 'w') raises; json.dump raises after open has truncated the file.
ReadFaults == {"read_fails"}
WriteFaults == {"write_fails", "write_truncates"}

\* load_cached_results when the next file operation meets the fault: the
\* handler `except Exception` logs a warning and returns None.
load_cached_results_try_empty(cache_dir, cache_key, now_, fault) ==
    IF cache_key \in DOMAIN cache_dir /\ fault \in ReadFaults
    THEN [is_none |-> FALSE, results |-> <<>>]
    ELSE load_cached_results(cache_dir, cache_key, now_)
load_cached_results_try(cache_dir, cache_key, now_, fault) ==
    IF cache_key \in DOMAIN cache_dir /\ fault \in ReadFaults
    THEN [is_none |-> TRUE, results |-> <<>>]
    ELSE load_cached_results(cache_dir, cache_key, now_)

load_unlinks_try(cache_dir, cache_key, now_, fault) ==
    IF cache_key \in DOMAIN cache_dir /\ fault \in ReadFaults
    THEN cache_dir
    ELSE load_unlinks(cache_dir, cache_key, now_)

\* Whether load_cached_results logs "cache read error": the file exists and
\* cannot be opened, parsed or turned into SearchResult objects.
load_logs_warning(cache_dir, cache_key, now_, fault) ==
    /\ cache_key \in DOMAIN cache_dir
    /\ \/ fault \in ReadFaults
       \/ ~parses(cache_dir[cache_key])
       \/ /\ ~cache_expired(now_, cache_dir[cache_key].timestamp)
          /\ \E i \in 1..Len(cache_dir[cache_key].results) :
                 ~item_is_result(cache_dir[cache_key].results[i])

\* The fault left for the next file operation once load_cached_results ran.
fault_after_load(cache_dir, cache_key, fault) ==
    IF cache_key \in DOMAIN cache_dir /\ fault \in ReadFaults THEN "ok" ELSE fault

\* save_cached_results when the next file operation meets the fault: the
\* handler `except Exception` logs a warning and the function returns.
save_cached_results_try(cache_dir, cache_key, results, now_, fault) ==
    IF fault = "write_fails"
    THEN cache_dir
    ELSE IF fault = "write_truncates"
         THEN [k \in DOMAIN cache_dir \cup {cache_key} |->
                  IF k = cache_key THEN Unparseable ELSE cache_dir[k]]
         ELSE save_cached_results(cache_dir, cache_key, results, now_)

fault_after_save(fault) == IF fault \in WriteFaults THEN "ok" ELSE fault

(***************************************************************************)
(* The inputs of the model and the answers of the channel-reading client.  *)
(***************************************************************************)

\* Bounds of the model: the searches called and the steps of the clock.
MaxSearches == 2
MaxTicks == 1

ChA == <<"@", "a">>
ChB == <<"@", "b">>
ChannelLists == {<<ChA, ChB>>, <<ChB, ChA>>}

KwPython == <<"P", "y", "t", "h", "o", "n">>
KeywordLists == {<<KwPython>>}

Limits == {0, 1, 2}

\* "Python rocks ok." has a word that matches the keyword python.
TextMatch ==
    <<"P", "y", "t", "h", "o", "n", " ", "r", "o", "c", "k", "s", " ", "o", "k", ".">>

\* "go banana go now." has none.
TextNoMatch ==
    <<"g", "o", " ", "b", "a", "n", "a", "n", "a", " ", "g", "o", " ", "n", "o", "w", ".">>

\* The one timestamp messages carry, and date.strftime("%d.%m.%y %H:%M").
MessageDate == "2024-01-15T10:30"
strftime ==
    MessageDate :>
        <<"1", "5", ".", "0", "1", ".", "2", "4", " ", "1", "0", ":", "3", "0">>

\* Messages: without text, with a text that has no match, with a text that
\* has one, and with a text that has one on a message whose date is None.
MsgEmpty == [message |-> <<>>, date |-> MessageDate]
MsgNoMatch == [message |-> TextNoMatch, date |-> MessageDate]
MsgMatch == [message |-> TextMatch, date |-> MessageDate]
MsgNoDate == [message |-> TextMatch, date |-> None]

\* What iter_messages yields for each channel, newest first.  The message at
\* position k of a history of n messages has the id n - k + 1.
Histories ==
    (ChA :> <<MsgMatch, MsgNoMatch, MsgMatch>>)
        @@ (ChB :> <<MsgEmpty, MsgMatch, MsgNoDate, MsgMatch>>)

\* The entity get_entity resolves each channel to: @a has a public username
\* and a title, @b has neither.
Entities ==
    (ChA :> [username |-> <<"a">>, has_title |-> TRUE, title |-> <<"A">>])
        @@ (ChB :> [username |-> <<>>, has_title |-> FALSE, title |-> <<>>])

NoEntity == [username |-> <<>>, has_title |-> FALSE, title |-> <<>>]

\* str(n) for a message id.
Digits == <<"1", "2", "3", "4", "5", "6", "7", "8", "9">>
str_of_id(n) == <<Digits[n]>>

(***************************************************************************)
(* search_channel_messages                                                 *)
(***************************************************************************)

\* The searches that can run: the coroutines of search_channel_messages.
AllSearchers == {"s1", "s2"}
Searchers == {"s1"}

VARIABLES
    TELETHON_AVAILABLE,  \* the module flag set by the import of telethon
    connected,           \* telethon_client.is_connected()
    authorized,          \* what telethon_client.is_user_authorized() answers
    cache,               \* the files of CACHE_DIR
    now,                 \* time.time()
    task,                \* the local state of each search
    started,             \* the number of searches called so far
    ticks,               \* the number of clock steps so far
    last_scan,           \* the last search that scanned and returned
    op,                  \* the last direct call of the cache functions
    io,                  \* the fault the next file operation meets, or "ok"
    call,                \* the last direct call of a pure function
    chat,                \* the bot's conversation with one user and its files
    shop                 \* a ShopAPIClient and the send_products it runs

vars ==
    <<TELETHON_AVAILABLE, connected, authorized, cache, now, task, started,
      ticks, last_scan, op, io, call, chat, shop>>

\* A search that is not running.
IdleTask ==
    [pc |-> "idle",
     channels |-> <<>>,
     keywords |-> <<>>,
     limit |-> 0,
     force_refresh |-> FALSE,
     cache_key |-> <<<<>>, <<>>, 0>>,
     i |-> 0,                 \* the position of `channel` in channels
     entity |-> NoEntity,
     nread |-> 0,             \* messages the iterator has yielded
     results |-> <<>>,
     returned |-> <<>>,       \* the value returned (pc = "done")
     raised |-> "",           \* the exception raised (pc = "failed")
     served |-> "",           \* unavailable, cache or scan (pc = "done")
     client_calls |-> {},     \* the client operations awaited so far
     origin |-> <<>>,         \* for each result, <<i, nread>> of its message
     message_errors |-> 0,    \* messages whose processing raised
     cache_warnings |-> {},   \* the cache errors logged: "read", "write"
     had_entry |-> FALSE]     \* a record of the key was valid at the call

Max(a, b) == IF a >= b THEN a ELSE b

\* per_channel_limit = max(50, limit * 2)
per_channel_limit(limit) == Max(50, limit * 2)

\* The test `len(results) >= limit` at the head of the channel loop ...
limit_reached_never(n, limit) == FALSE
limit_reached(n, limit) == n >= limit

\* ... and the same test after a result is appended.
limit_reached_after_append_gt(n, limit) == n > limit
limit_reached_after_append(n, limit) == n >= limit

\* The test `if not force_refresh` before the cache is read.
use_cache_always(force_refresh) == TRUE
use_cache(force_refresh) == ~force_refresh

\* list[:n]
first(list, n) == SubSeq(list, 1, IF Len(list) < n THEN Len(list) ELSE n)

\* lowercase_keywords
lowercase_keywords(keywords) == [k \in 1..Len(keywords) |-> lower(keywords[k])]

\* snippet: at most 3 sentences joined, cut to 197 characters and "...".
make_snippet_cut_at_limit(relevant_sentences) ==
    LET snippet == str_join(<<" ">>, first(relevant_sentences, 3))
    IN  IF Len(snippet) > 200
        THEN SubSeq(snippet, 1, 200) \o <<".", ".", ".">>
        ELSE snippet
make_snippet(relevant_sentences) ==
    LET snippet ==
            str_join(<<" ">>,
                SubSeq(relevant_sentences, 1,
                       IF Len(relevant_sentences) < 3 THEN Len(relevant_sentences) ELSE 3))
    IN  IF Len(snippet) > 200
        THEN SubSeq(snippet, 1, 197) \o <<".", ".", ".">>
        ELSE snippet

\* link: the sentinel (an em dash) when the entity has no username.
make_link(entity, message_id) ==
    IF entity.username # <<>>
    THEN <<"https://t.me/">> \o entity.username \o <<"/">> \o str_of_id(message_id)
    ELSE <<"emdash">>

\* channel_title = getattr(entity, "title", channel)
channel_title(entity, channel) ==
    IF entity.has_title THEN entity.title ELSE channel

\* The SearchResult built from one message.
make_result(entity, channel, message_id, date, relevant_sentences) ==
    [channel |-> channel_title(entity, channel),
     message_id |-> message_id,
     date |-> strftime[date],
     snippet |-> make_snippet(relevant_sentences),
     link |-> make_link(entity, message_id)]

\* ensure_telethon_connected up to its first await: it raises, or awaits
\* connect(), or awaits is_user_authorized().
ensure_telethon_connected(t) ==
    IF ~TELETHON_AVAILABLE
    THEN [t EXCEPT !.pc = "failed", !.raised = "RuntimeError"]
    ELSE IF ~connected
         THEN [t EXCEPT !.pc = "connect",
                        !.client_calls = @ \cup {"is_connected", "connect"}]
         ELSE [t EXCEPT !.pc = "is_user_authorized",
                        !.client_calls = @ \cup {"is_connected", "is_user_authorized"}]

\* Control is at the head of `for channel in channels` with position i next,
\* the search's state being t.  When the list is exhausted or the limit is
\* reached the loop ends: the results are saved and returned.  Otherwise
\* get_entity(channel) is awaited.
LoopHead(p, t, i) ==
    IF i > Len(t.channels) \/ limit_reached(Len(t.results), t.limit)
    THEN /\ cache' = save_cached_results_try(cache, t.cache_key, t.results, now, io)
         /\ io' = fault_after_save(io)
         /\ task' = [task EXCEPT ![p] =
                        [t EXCEPT !.pc = "done",
                                  !.returned = t.results,
                                  !.served = "scan",
                                  !.cache_warnings =
                                      IF io \in WriteFaults THEN @ \cup {"write"} ELSE @]]
         /\ last_scan' = [valid |-> TRUE,
                          cache_key |-> t.cache_key,
                          results |-> t.results,
                          at |-> now]
    ELSE /\ task' = [task EXCEPT ![p] =
                        [t EXCEPT !.pc = "get_entity",
                                  !.i = i,
                                  !.nread = 0,
                                  !.entity = NoEntity,
                                  !.client_calls = @ \cup {"get_entity"}]]
         /\ UNCHANGED <<cache, last_scan, io>>

\* The handler `except Exception` around the message loop of a channel, the
\* search's state being t: an error is logged and the channel loop continues
\* with the next channel.
except_Exception_in_loop_body(p, t) ==
    /\ task' = [task EXCEPT ![p] = t]
    /\ UNCHANGED <<cache, last_scan, io>>
except_Exception(p, t) == LoopHead(p, t, t.i + 1)

\* The caller awaits search_channel_messages(channels, keywords, limit,
\* force_refresh): the code up to the first await on the client.
Call(p, channels, keywords, limit, force_refresh) ==
    /\ task[p].pc = "idle"
    /\ started < MaxSearches
    /\ started' = started + 1
    /\ LET cache_key == get_cache_key(channels, keywords, limit)
           cached_results == load_cached_results_try(cache, cache_key, now, io)
           new == [IdleTask EXCEPT !.channels = channels,
                                   !.keywords = keywords,
                                   !.limit = limit,
                                   !.force_refresh = force_refresh,
                                   !.cache_key = cache_key,
                                   !.had_entry =
                                       ~load_cached_results(cache, cache_key, now).is_none]
           t == IF /\ TELETHON_AVAILABLE
                   /\ use_cache(force_refresh)
                   /\ load_logs_warning(cache, cache_key, now, io)
                THEN [new EXCEPT !.cache_warnings = {"read"}]
                ELSE new
       IN  IF ~TELETHON_AVAILABLE
           THEN /\ task' = [task EXCEPT ![p] =
                               [t EXCEPT !.pc = "done",
                                         !.returned = <<>>,
                                         !.served = "unavailable"]]
                /\ UNCHANGED <<cache, io>>
           ELSE IF use_cache(force_refresh)
                THEN /\ cache' = load_unlinks_try(cache, cache_key, now, io)
                     /\ io' = fault_after_load(cache, cache_key, io)
                     /\ task' = [task EXCEPT ![p] =
                            IF ~cached_results.is_none
                            THEN [t EXCEPT !.pc = "done",
                                           !.returned = cached_results.results,
                                           !.served = "cache"]
                            ELSE ensure_telethon_connected(t)]
                ELSE /\ task' = [task EXCEPT ![p] = ensure_telethon_connected(t)]
                     /\ UNCHANGED <<cache, io>>
    /\ UNCHANGED <<TELETHON_AVAILABLE, connected, authorized, now, ticks,
                   last_scan, op, call, chat, shop>>

\* await telethon_client.connect() returns or raises.
Connect(p) ==
    /\ task[p].pc = "connect"
    /\ \/ /\ connected' = TRUE
          /\ task' = [task EXCEPT ![p].pc = "is_user_authorized",
                                  ![p].client_calls = @ \cup {"is_user_authorized"}]
       \/ /\ task' = [task EXCEPT ![p].pc = "failed",
                                  ![p].raised = "ConnectionError"]
          /\ UNCHANGED connected
    /\ UNCHANGED <<TELETHON_AVAILABLE, authorized, cache, now, started, ticks,
                   last_scan, op, io, call, chat, shop>>

\* await telethon_client.is_user_authorized() answers; the search raises
\* RuntimeError or enters the channel loop.
IsUserAuthorized(p) ==
    /\ task[p].pc = "is_user_authorized"
    /\ IF authorized
       THEN LoopHead(p, task[p], 1)
       ELSE /\ task' = [task EXCEPT ![p].pc = "failed",
                                    ![p].raised = "RuntimeError"]
            /\ UNCHANGED <<cache, last_scan, io>>
    /\ UNCHANGED <<TELETHON_AVAILABLE, connected, authorized, now, started, ticks, op,
                   call, chat, shop>>

\* await telethon_client.get_entity(channel) returns the entity, raises
\* RPCError (caught: the next channel) or raises another exception, such as
\* ValueError (not caught by `except RPCError`).
GetEntity(p) ==
    /\ task[p].pc = "get_entity"
    /\ \/ /\ task' = [task EXCEPT ![p].pc = "iter_messages",
                                  ![p].entity = Entities[task[p].channels[task[p].i]],
                                  ![p].client_calls = @ \cup {"iter_messages"}]
          /\ UNCHANGED <<cache, last_scan, io>>
       \/ LoopHead(p, task[p], task[p].i + 1)
       \/ /\ task' = [task EXCEPT ![p].pc = "failed",
                                  ![p].raised = "ValueError"]
          /\ UNCHANGED <<cache, last_scan, io>>
    /\ UNCHANGED <<TELETHON_AVAILABLE, connected, authorized, now, started, ticks, op,
                   call, chat, shop>>

\* extract_relevant_sentences(text, lowercase_keywords), tabulated for the
\* keyword lists and the message texts of the model.
relevant_sentences_of ==
    [keywords \in KeywordLists |->
        [text \in {<<>>, TextMatch, TextNoMatch} |->
            extract_relevant_sentences(text, lowercase_keywords(keywords))]]

\* The body of `async for message in ...` for the message m, yielded as the
\* message number nread + 1 of the n messages of the channel.
ProcessMessage(p, m, n) ==
    LET t == task[p]
        message_id == n - t.nread
        text == m.message
        relevant_sentences == relevant_sentences_of[t.keywords][text]
        read == [t EXCEPT !.nread = @ + 1]
    IN  IF text = <<>> \/ relevant_sentences = <<>>
        THEN /\ task' = [task EXCEPT ![p] = read]
             /\ UNCHANGED <<cache, last_scan, io>>
        ELSE IF m.date = None
             THEN \* message.date.strftime raises AttributeError
                  except_Exception(p, [read EXCEPT !.message_errors = @ + 1])
             ELSE LET found ==
                          [read EXCEPT
                              !.results = Append(@,
                                  make_result(t.entity, t.channels[t.i], message_id,
                                              m.date, relevant_sentences)),
                              !.origin = Append(@, <<t.i, t.nread + 1>>)]
                  IN  IF limit_reached_after_append(Len(found.results), t.limit)
                      THEN LoopHead(p, found, t.i + 1)
                      ELSE /\ task' = [task EXCEPT ![p] = found]
                           /\ UNCHANGED <<cache, last_scan, io>>

\* The iterator of iter_messages(entity, limit=per_channel_limit) yields the
\* next message, ends, or raises.
IterMessages(p) ==
    /\ task[p].pc = "iter_messages"
    /\ LET history == Histories[task[p].channels[task[p].i]]
           exhausted ==
               \/ task[p].nread = Len(history)
               \/ task[p].nread = per_channel_limit(task[p].limit)
       IN  \/ /\ ~exhausted
              /\ ProcessMessage(p, history[task[p].nread + 1], Len(history))
           \/ /\ exhausted
              /\ LoopHead(p, task[p], task[p].i + 1)
           \/ except_Exception(p, task[p])
    /\ UNCHANGED <<TELETHON_AVAILABLE, connected, authorized, now, started, ticks, op,
                   call, chat, shop>>

\* The caller's handler has used the result or the exception.
HandlerReturns(p) ==
    /\ task[p].pc \in {"done", "failed"}
    /\ task' = [task EXCEPT ![p] = IdleTask]
    /\ UNCHANGED <<TELETHON_AVAILABLE, connected, authorized, cache, now, started,
                   ticks, last_scan, op, io, call, chat, shop>>

\* The clock advances.
TickSteps == {CACHE_TTL, CACHE_TTL + 1}
Tick(d) ==
    /\ ticks < MaxTicks
    /\ ticks' = ticks + 1
    /\ now' = now + d
    /\ UNCHANGED <<TELETHON_AVAILABLE, connected, authorized, cache, task, started,
                   last_scan, op, io, call, chat, shop>>

\* No direct call of the cache functions yet.
NoCall == [name |-> "", cache_key |-> <<<<>>, <<>>, 0>>, at |-> 0, results |-> <<>>]
NoOp ==
    [name |-> "", cache_key |-> <<<<>>, <<>>, 0>>, at |-> 0, is_none |-> TRUE,
     results |-> <<>>, prev |-> NoCall]

\* The conversation before the first message: no FSM state, no FSM data,
\* no request file.
IdleChat ==
    [state |-> None, data |-> <<>>, requests |-> <<>>, handler |-> "",
     text |-> <<>>, answers |-> <<>>, messages |-> 0]

\* The client before send_products is called.
IdleShop ==
    [pc |-> "idle", request |-> <<>>, attempt |-> 0, posts |-> <<>>,
     sleeps |-> <<>>, returned |-> <<>>, sends |-> 0]

\* No pure function called directly yet.
NoApplication == [fn |-> ""]

Init ==
    /\ TELETHON_AVAILABLE \in BOOLEAN
    /\ connected \in BOOLEAN
    /\ authorized \in BOOLEAN
    /\ ~TELETHON_AVAILABLE => ~connected /\ ~authorized
    /\ cache = [k \in {} |-> 0]
    /\ now = 0
    /\ task = [p \in AllSearchers |-> IdleTask]
    /\ started = 0
    /\ ticks = 0
    /\ last_scan = [valid |-> FALSE, cache_key |-> <<<<>>, <<>>, 0>>,
                    results |-> <<>>, at |-> 0]
    /\ op = NoOp
    /\ io = "ok"
    /\ call = NoApplication
    /\ chat = IdleChat
    /\ shop = IdleShop

Next ==
    \/ \E p \in Searchers :
           \E channels \in ChannelLists, keywords \in KeywordLists,
              limit \in Limits, force_refresh \in BOOLEAN :
               Call(p, channels, keywords, limit, force_refresh)
    \/ \E p \in Searchers : Connect(p)
    \/ \E p \in Searchers : IsUserAuthorized(p)
    \/ \E p \in Searchers : GetEntity(p)
    \/ \E p \in Searchers : IterMessages(p)
    \/ \E p \in Searchers : HandlerReturns(p)
    \/ \E d \in TickSteps : Tick(d)

Spec == Init /\ [][Next]_vars

(***************************************************************************)
(* The cache functions called directly.                                    *)
(***************************************************************************)

CacheKeys ==
    {get_cache_key(<<ChA, ChB>>, <<KwPython>>, 1),
     get_cache_key(<<ChB>>, <<KwPython>>, 2)}

ResultA ==
    make_result(Entities[ChA], ChA, 3, MessageDate,
                extract_relevant_sentences(TextMatch, <<lower(KwPython)>>))
ResultB ==
    make_result(Entities[ChB], ChB, 3, MessageDate,
                extract_relevant_sentences(TextMatch, <<lower(KwPython)>>))
ResultLists == {<<>>, <<ResultA>>, <<ResultA, ResultB>>, <<ResultB, ResultA>>}

\* What op keeps of the call before the last one.
Previous == [name |-> op.name, cache_key |-> op.cache_key, at |-> op.at,
             results |-> op.results]

\* save_cached_results(cache_key, results)
Store(cache_key, results) ==
    /\ cache' = save_cached_results(cache, cache_key, results, now)
    /\ op' = [name |-> "store", cache_key |-> cache_key, at |-> now,
              is_none |-> FALSE, results |-> results, prev |-> Previous]
    /\ UNCHANGED <<TELETHON_AVAILABLE, connected, authorized, now, task, started,
                   ticks, last_scan, io, call, chat, shop>>

\* load_cached_results(cache_key)
Load(cache_key) ==
    /\ cache' = load_unlinks(cache, cache_key, now)
    /\ LET cached_results == load_cached_results(cache, cache_key, now)
       IN  op' = [name |-> "load", cache_key |-> cache_key, at |-> now,
                  is_none |-> cached_results.is_none,
                  results |-> cached_results.results, prev |-> Previous]
    /\ UNCHANGED <<TELETHON_AVAILABLE, connected, authorized, now, task, started,
                   ticks, last_scan, io, call, chat, shop>>

NextCache ==
    \/ \E cache_key \in CacheKeys, results \in ResultLists : Store(cache_key, results)
    \/ \E cache_key \in CacheKeys : Load(cache_key)
    \/ \E d \in TickSteps : Tick(d)

SpecCache == Init /\ [][NextCache]_vars

(***************************************************************************)
(* The search with a file system that can fail.                            *)
(***************************************************************************)

\* The next operation on a cache file will fail.
Fault(f) ==
    /\ io = "ok"
    /\ io' = f
    /\ UNCHANGED <<TELETHON_AVAILABLE, connected, authorized, cache, now, task,
                   started, ticks, last_scan, op, call, chat, shop>>

NextFaults ==
    \/ \E p \in Searchers :
           \E channels \in ChannelLists, keywords \in KeywordLists,
              force_refresh \in BOOLEAN :
               Call(p, channels, keywords, 2, force_refresh)
    \/ \E p \in Searchers : Connect(p)
    \/ \E p \in Searchers : IsUserAuthorized(p)
    \/ \E p \in Searchers : GetEntity(p)
    \/ \E p \in Searchers : IterMessages(p)
    \/ \E p \in Searchers : HandlerReturns(p)
    \/ \E f \in ReadFaults \cup WriteFaults : Fault(f)

SpecFaults == Init /\ [][NextFaults]_vars

(***************************************************************************)
(* Two searches for one key on the same event loop.                        *)
(***************************************************************************)

\* The client answers the operation the search p awaits.
ClientAnswers(p) ==
    \/ Connect(p)
    \/ IsUserAuthorized(p)
    \/ GetEntity(p)
    \/ IterMessages(p)

\* The search s1 is called with force_refresh for the channels @a, @b, the
\* search s2 without for the channels @b, @a: they share the key.
NextRace ==
    \/ \E p \in AllSearchers :
           Call(p, IF p = "s1" THEN <<ChA, ChB>> ELSE <<ChB, ChA>>, <<KwPython>>, 2,
                p = "s1")
    \/ \E p \in AllSearchers : ClientAnswers(p)
    \/ \E p \in AllSearchers : HandlerReturns(p)

SpecRace ==
    /\ Init
    /\ [][NextRace]_vars
    /\ \A p \in AllSearchers : WF_vars(ClientAnswers(p))

(***************************************************************************)
(* The pure functions called directly.                                     *)
(***************************************************************************)

\* The longest list of channels or keywords given to get_cache_key.
MaxListLen == 2

\* The sequences of at most n elements of S.
SeqsUpTo(S, n) == UNION {[1..k -> S] : k \in 0..n}

KwGo == <<"g", "o">>

\* The pure functions start from one state of the process.
InitPure == Init /\ TELETHON_AVAILABLE /\ connected /\ authorized

\* get_cache_key(channels, keywords, limit)
GetCacheKey(channels, keywords, limit) ==
    /\ call' = [fn |-> "get_cache_key", channels |-> channels,
                keywords |-> keywords, limit |-> limit,
                key |-> get_cache_key(channels, keywords, limit)]
    /\ UNCHANGED <<TELETHON_AVAILABLE, connected, authorized, cache, now, task,
                   started, ticks, last_scan, op, io, chat, shop>>

NextKey ==
    \E channels \in SeqsUpTo({ChA, ChB}, MaxListLen),
       keywords \in SeqsUpTo({KwPython, KwGo}, MaxListLen),
       limit \in Limits :
        GetCacheKey(channels, keywords, limit)

SpecKey == InitPure /\ [][NextKey]_vars

\* The words and the keywords given to fuzzy_match_word.
WordPython == <<"p", "y", "t", "h", "o", "n">>
WordPythom == <<"p", "y", "t", "h", "o", "m">>
WordPythoman == <<"p", "y", "t", "h", "o", "m", "a", "n">>
WordPythonista == <<"p", "y", "t", "h", "o", "n", "i", "s", "t", "a">>
WordBanana == <<"b", "a", "n", "a", "n", "a">>
WordIs == <<"i", "s">>
WordKot == <<"cy_k", "cy_o", "cy_t">>
WordKotoma == <<"cy_k", "cy_o", "cy_t", "cy_o", "cy_m", "cy_a">>
WordKotomat == <<"cy_k", "cy_o", "cy_t", "cy_o", "cy_m", "cy_a", "cy_t">>
KwThon == <<"t", "h", "o", "n">>
KwPythons == <<"p", "y", "t", "h", "o", "n", "s">>
KwKota == <<"cy_k", "cy_o", "cy_t", "cy_a">>
KwKotomatami == WordKotomat \o <<"cy_a", "cy_m", "cy_i">>
KwKotomatuhi == WordKotomat \o <<"cy_u", "cy_h", "cy_i">>

Words ==
    {<<>>, WordPython, KwPython, WordPythom, WordPythoman, WordPythonista,
     WordBanana, KwGo, WordIs, WordKot, WordKotoma, WordKotomat}
Keywords ==
    {<<>>, WordPython, KwPython, KwThon, KwPythons, KwGo, WordBanana, KwKota,
     KwKotomatami, KwKotomatuhi}

\* fuzzy_match_word(word, keyword)
FuzzyMatchWord(word, keyword) ==
    /\ call' = [fn |-> "fuzzy_match_word", word |-> word, keyword |-> keyword,
                ret |-> fuzzy_match_word(word, keyword)]
    /\ UNCHANGED <<TELETHON_AVAILABLE, connected, authorized, cache, now, task,
                   started, ticks, last_scan, op, io, chat, shop>>

NextMatcher == \E word \in Words, keyword \in Keywords : FuzzyMatchWord(word, keyword)

SpecMatcher == InitPure /\ [][NextMatcher]_vars

(***************************************************************************)
(* extract_relevant_sentences called directly.                             *)
(***************************************************************************)

\* The largest number of pieces a text is made of.
MaxFragments == 2

\* "Python ok.": relevant, 10 characters.
SentenceTen ==
    <<"P", "y", "t", "h", "o", "n", " ", "o", "k", ".">>

\* "Pythons ok!": relevant, 11 characters.
SentenceEleven ==
    <<"P", "y", "t", "h", "o", "n", "s", " ", "o", "k", "!">>

\* "go now.": 7 characters, relevant to the keyword go only.
SentenceGo ==
    <<"g", "o", " ", "n", "o", "w", ".">>

\* "no  way\npython": relevant, runs of whitespace, no terminator.
SentenceOpen ==
    <<"n", "o", " ", " ", "w", "a", "y", "\n", "p", "y", "t", "h", "o", "n">>

\* "Banana split here!": no word matches python or go.
SentenceBanana ==
    <<"B", "a", "n", "a", "n", "a", " ", "s", "p", "l", "i", "t", " ", "h",
      "e", "r", "e", "!">>

Fragments ==
    {TextMatch, SentenceTen, SentenceEleven, SentenceGo, SentenceOpen,
     SentenceBanana}

\* What stands between the pieces of a text.
Separators == {<<" ">>, <<"\n", " ">>, <<>>}

\* The texts: at most MaxFragments pieces joined by one of the separators.
Texts ==
    {str_join(sep, pieces) :
        sep \in Separators, pieces \in SeqsUpTo(Fragments, MaxFragments)}

ExtractKeywordLists == {<<>>, <<WordPython>>, <<KwGo, KwPython>>}

\* What joins returned sentences into one text.
JoinSeparators == {<<" ">>, <<"\n">>}

\* The largest number of calls in a row.
MaxCalls == 2

\* extract_relevant_sentences(text, keywords), and again on its own output
\* joined into one text.  A later call has the arguments of the first.
ExtractRelevantSentences(text, keywords) ==
    /\ \/ call = NoApplication
       \/ /\ call.fn = "extract_relevant_sentences"
          /\ call.nth < MaxCalls
          /\ text = call.text
          /\ keywords = call.keywords
    /\ LET relevant_sentences == extract_relevant_sentences(text, keywords)
       IN  call' = [fn |-> "extract_relevant_sentences",
                    nth |-> IF call = NoApplication THEN 1 ELSE call.nth + 1,
                    text |-> text,
                    keywords |-> keywords,
                    ret |-> relevant_sentences,
                    again |-> [sep \in JoinSeparators |->
                                  extract_relevant_sentences(
                                      str_join(sep, relevant_sentences), keywords)]]
    /\ UNCHANGED <<TELETHON_AVAILABLE, connected, authorized, cache, now, task,
                   started, ticks, last_scan, op, io, chat, shop>>

NextExtract ==
    \E text \in Texts, keywords \in ExtractKeywordLists :
        ExtractRelevantSentences(text, keywords)

SpecExtract == InitPure /\ [][NextExtract]_vars

(***************************************************************************)
(* format_search_results called directly.  A response is the sequence of   *)
(* its lines, a line the tuple of its fixed part and the values put in it. *)
(***************************************************************************)

\* The fixed message of both modes for an empty list of results.
NoMatchesMessage == <<<<"no_matches">>>>

\* results[start_idx:end_idx] of Python, for indices of either sign: a
\* negative index counts from the end, and both are clamped to 0..len.
slice_index(n, idx) ==
    IF idx < 0 THEN Max(n + idx, 0) ELSE IF idx > n THEN n ELSE idx

slice(results, start_idx, end_idx) ==
    SubSeq(results, slice_index(Len(results), start_idx) + 1,
           slice_index(Len(results), end_idx))

\* The lines of one result in text mode, numbered i.
text_entry(i, result) ==
    <<<<"b", i, result.channel>>, <<"date", result.date>>,
      <<"snippet", result.snippet>>>>
        \o (IF result.link # <<"emdash">> THEN <<<<"link", result.link>>>> ELSE <<>>)
        \o <<<<>>>>

RECURSIVE text_entries_from(_, _, _)
text_entries_from(page_results, k, start_idx) ==
    IF k > Len(page_results)
    THEN <<>>
    ELSE text_entry(start_idx + k, page_results[k])
             \o text_entries_from(page_results, k + 1, start_idx)

format_search_results_as_text(results, page, per_page) ==
    IF results = <<>>
    THEN NoMatchesMessage
    ELSE LET total_results == Len(results)
             start_idx == (page - 1) * per_page
             end_idx == start_idx + per_page
             page_results == slice(results, start_idx, end_idx)
         IN  <<<<"header_text", total_results, page>>, <<>>>>
                 \o text_entries_from(page_results, 1, start_idx)

\* cell.replace("|", "\\|").replace("\n", " ")
RECURSIVE escape_cell(_)
escape_cell(cell) ==
    IF cell = <<>>
    THEN <<>>
    ELSE (IF Head(cell) = "|" THEN <<"\\", "|">>
          ELSE IF Head(cell) = "\n" THEN <<" ">>
          ELSE <<Head(cell)>>) \o escape_cell(Tail(cell))

\* cell[:keep - 3] + "..." when the cell is longer than keep.
shorten(cell, keep) ==
    IF Len(cell) > keep
    THEN SubSeq(cell, 1, keep - 3) \o <<".", ".", ".">>
    ELSE cell

table_row(i, result) ==
    <<"row", i, shorten(escape_cell(result.channel), 20), result.date,
      shorten(escape_cell(result.snippet), 50), result.link>>

format_search_results_as_table(results, page, per_page) ==
    IF results = <<>>
    THEN NoMatchesMessage
    ELSE LET total_results == Len(results)
             start_idx == (page - 1) * per_page
             end_idx == start_idx + per_page
             page_results == slice(results, start_idx, end_idx)
         IN  <<<<"header_table", total_results, page>>, <<>>,
               <<"columns">>, <<"rule">>>>
                 \o [k \in 1..Len(page_results) |->
                        table_row(start_idx + k, page_results[k])]

format_search_results(results, page, per_page, use_table) ==
    IF use_table
    THEN format_search_results_as_table(results, page, per_page)
    ELSE format_search_results_as_text(results, page, per_page)

\* The longest list of results that is formatted.
MaxResults == 4

\* The result at position i of the lists: every second one has no link.
FormatResult(i) ==
    make_result(Entities[IF i % 2 = 1 THEN ChA ELSE ChB],
                IF i % 2 = 1 THEN ChA ELSE ChB, i, MessageDate, <<TextMatch>>)

FormatResultLists == {[i \in 1..n |-> FormatResult(i)] : n \in 0..MaxResults}

Pages == {-2, -1, 0, 1, 2, 3, 4}
PerPages == {1, 2, 3}

FormatSearchResults(results, page, per_page, use_table) ==
    /\ call' = [fn |-> "format_search_results",
                results |-> results,
                page |-> page,
                per_page |-> per_page,
                use_table |-> use_table,
                ret |-> format_search_results(results, page, per_page, use_table)]
    /\ UNCHANGED <<TELETHON_AVAILABLE, connected, authorized, cache, now, task,
                   started, ticks, last_scan, op, io, chat, shop>>

NextFormat ==
    \E results \in FormatResultLists, page \in Pages, per_page \in PerPages,
       use_table \in BOOLEAN :
        FormatSearchResults(results, page, per_page, use_table)

SpecFormat == InitPure /\ [][NextFormat]_vars

(***************************************************************************)
(* The bot's message handlers.                                             *)
(***************************************************************************)

\* s.startswith(prefix)
startswith(s, prefix) ==
    Len(prefix) <= Len(s) /\ SubSeq(s, 1, Len(prefix)) = prefix

\* s.split(sep) for a separator sep that is not empty.
RECURSIVE str_split_on_from(_, _, _, _, _)
str_split_on_from(s, sep, i, start, acc) ==
    IF i + Len(sep) - 1 > Len(s)
    THEN Append(acc, SubSeq(s, start, Len(s)))
    ELSE IF SubSeq(s, i, i + Len(sep) - 1) = sep
         THEN str_split_on_from(s, sep, i + Len(sep), i + Len(sep),
                                Append(acc, SubSeq(s, start, i - 1)))
         ELSE str_split_on_from(s, sep, i + 1, start, acc)

str_split_on(s, sep) == str_split_on_from(s, sep, 1, 1, <<>>)

\* The concatenation of the lists of a list.
RECURSIVE concat(_)
concat(lists) ==
    IF lists = <<>> THEN <<>> ELSE Head(lists) \o concat(Tail(lists))

HttpsTMe == <<"h", "t", "t", "p", "s", ":", "/", "/", "t", ".", "m", "e", "/">>
TMe == <<"t", ".", "m", "e", "/">>

\* normalize_list(payload): the items between commas and line breaks,
\* stripped, without the empty ones.
normalize_list(payload) ==
    IF payload = <<>> \/ strip(payload) = <<>>
    THEN <<>>
    ELSE LET raw == str_split_on(
                        [k \in 1..Len(payload) |->
                            IF payload[k] = "\n" THEN "," ELSE payload[k]],
                        <<",">>)
         IN  concat([k \in 1..Len(raw) |->
                        IF strip(raw[k]) # <<>> THEN <<strip(raw[k])>> ELSE <<>>])

\* validate_keywords(keywords)
validate_keywords(keywords) ==
    first(concat([k \in 1..Len(keywords) |->
                     LET kw == strip(keywords[k])
                     IN  IF Len(kw) < 2 THEN <<>> ELSE <<first(kw, 50)>>]),
          10)

\* What validate_channels appends for one channel: one item or none.
validated_channel(channel_) ==
    LET channel == strip(channel_)
    IN  IF channel = <<>>
        THEN <<>>
        ELSE IF startswith(channel, <<"@">>)
        THEN <<channel>>
        ELSE IF startswith(channel, HttpsTMe)
        THEN LET username ==
                     str_split_on(str_join(<<>>, str_split_on(channel, HttpsTMe)),
                                  <<"/">>)[1]
             IN  IF username # <<>> THEN <<<<"@">> \o username>> ELSE <<>>
        ELSE IF IsSubstring(TMe, channel)
        THEN LET parts == str_split_on(channel, TMe)
                 username == str_split_on(parts[2], <<"/">>)[1]
             IN  IF Len(parts) > 1 /\ username # <<>>
                 THEN <<<<"@">> \o username>>
                 ELSE <<>>
        ELSE <<<<"@">> \o channel>>

\* validate_channels(channels)
validate_channels(channels) ==
    first(concat([k \in 1..Len(channels) |-> validated_channel(channels[k])]), 5)

\* The one user who writes to the bot.
UserId == 1

\* SearchRequest, and the file save_request writes for it.
SearchRequest(keywords, channels) ==
    [user_id |-> UserId, keywords |-> keywords, channels |-> channels]

save_request(requests, request) == Append(requests, request)

\* A part of a message that handle_text takes for a channel.
is_channel_part(part) ==
    \/ startswith(part, <<"@">>)
    \/ startswith(part, HttpsTMe)
    \/ IsSubstring(TMe, part)

\* handle_text asks for the channels in another message.
step_mode_never(keywords, channels) == FALSE
step_mode(keywords, channels) == channels = <<>>

\* What a handler leaves when it answers and returns.
answered(c, handler, text, answers) ==
    [c EXCEPT !.handler = handler, !.text = text, !.answers = answers,
              !.messages = @ + 1]

\* What a handler leaves when it saves the request, answers and clears the
\* FSM state and data.
saved(c, handler, text, keywords, channels, warnings) ==
    [answered(c, handler, text, Append(warnings, "saved")) EXCEPT
        !.requests = save_request(@, SearchRequest(keywords, channels)),
        !.state = None,
        !.data = <<>>]

\* cmd_start
cmd_start(c, text) ==
    [answered(c, "cmd_start", text, <<"menu">>) EXCEPT
        !.state = None, !.data = <<>>]

\* cmd_list
cmd_list(c, text) == answered(c, "cmd_list", text, <<"list">>)

\* handle_text
handle_text(c, text) ==
    LET parts == str_split(strip(text))
        keywords ==
            validate_keywords(
                SelectSeq(parts, LAMBDA part : ~is_channel_part(part)))
        channels == validate_channels(SelectSeq(parts, is_channel_part))
        many_keywords == IF Len(keywords) > 10 THEN <<"too_many_keywords">> ELSE <<>>
        many_channels == IF Len(channels) > 5 THEN <<"too_many_channels">> ELSE <<>>
    IN  IF keywords = <<>> /\ channels = <<>>
        THEN answered(c, "handle_text", text, <<"invalid_request">>)
        ELSE IF keywords = <<>>
        THEN answered(c, "handle_text", text, <<"no_keywords">>)
        ELSE IF step_mode(keywords, channels)
        THEN IF Len(keywords) > 3
             THEN answered(c, "handle_text", text, <<"no_channels">>)
             ELSE [answered(c, "handle_text", text, <<"ask_channels">>) EXCEPT
                      !.data = [keywords |-> keywords],
                      !.state = "SearchForm:channels"]
        ELSE saved(c, "handle_text", text, first(keywords, 10), first(channels, 5),
                   many_keywords \o many_channels)

\* data.get(key, [])
data_get(data, key) == IF key \in DOMAIN data THEN data[key] ELSE <<>>

\* handle_channels_only
handle_channels_only(c, text) ==
    LET channels == validate_channels(normalize_list(text))
        keywords == data_get(c.data, "keywords")
    IN  IF channels = <<>>
        THEN answered(c, "handle_channels_only", text, <<"no_channels_recognised">>)
        ELSE saved(c, "handle_channels_only", text, keywords, first(channels, 5),
                   IF Len(channels) > 5 THEN <<"too_many_channels">> ELSE <<>>)

\* handle_keywords_only
handle_keywords_only(c, text) ==
    LET keywords == validate_keywords(normalize_list(text))
        channels == data_get(c.data, "channels")
    IN  IF keywords = <<>>
        THEN answered(c, "handle_keywords_only", text, <<"no_keywords_recognised">>)
        ELSE saved(c, "handle_keywords_only", text, first(keywords, 10), channels,
                   IF Len(keywords) > 10 THEN <<"too_many_keywords">> ELSE <<>>)

\* Command(name): the text is the command, alone or followed by arguments.
is_command(text, name) ==
    LET parts == str_split(text)
    IN  parts # <<>> /\ parts[1] = <<"/">> \o name

\* The message handlers in the order of their registration, each with its
\* filters.
filter_passes(handler, state, text) ==
    CASE handler = "cmd_start" -> is_command(text, <<"s", "t", "a", "r", "t">>)
      [] handler = "cmd_list" -> is_command(text, <<"l", "i", "s", "t">>)
      [] handler = "handle_text" -> Len(text) > 0
      [] handler = "handle_channels_only" ->
             state = "SearchForm:channels" /\ Len(text) > 0
      [] handler = "handle_keywords_only" ->
             state = "SearchForm:keywords" /\ Len(text) > 0

message_handlers ==
    <<"cmd_start", "cmd_list", "handle_text", "handle_channels_only",
      "handle_keywords_only">>

\* The dispatcher calls the first registered handler whose filters pass.
dispatch(state, text) ==
    LET passing == SelectSeq(message_handlers,
                             LAMBDA handler : filter_passes(handler, state, text))
    IN  IF passing = <<>> THEN "" ELSE passing[1]

handle(c, text) ==
    LET handler == dispatch(c.state, text)
    IN  CASE handler = "cmd_start" -> cmd_start(c, text)
          [] handler = "cmd_list" -> cmd_list(c, text)
          [] handler = "handle_text" -> handle_text(c, text)
          [] handler = "handle_channels_only" -> handle_channels_only(c, text)
          [] handler = "handle_keywords_only" -> handle_keywords_only(c, text)
          [] OTHER -> c

\* The largest number of messages the user sends.
MaxMessages == 3

KwPy == <<"p", "y">>
KwDev == <<"d", "e", "v">>
AtA == <<"@", "a">>

\* The texts the user sends: the quick format with two keywords and two
\* channels; keywords only; channels only; a keyword and a bare "@"; one
\* letter; the commands; 11 keywords and a channel; a keyword and 6 channels;
\* 4 keywords; a keyword of 51 characters and a channel; a keyword and a
\* link to a message of a channel.
UserTexts ==
    {str_join(<<" ">>, parts) : parts \in
        {<<KwPy, KwDev, AtA, TMe \o <<"b">>>>,
         <<KwPy, KwDev>>,
         <<AtA, <<"@", "b">>>>,
         <<KwPy, <<"@">>>>,
         <<<<"x">>>>,
         <<<<"/", "s", "t", "a", "r", "t">>>>,
         <<<<"/", "l", "i", "s", "t">>>>,
         [k \in 1..12 |-> IF k = 12 THEN AtA ELSE KwPy],
         [k \in 1..7 |-> IF k = 1 THEN KwPy ELSE AtA],
         <<KwPy, KwDev, KwPy, KwDev>>,
         <<[k \in 1..51 |-> "k"], AtA>>,
         <<KwPy, HttpsTMe \o <<"c", "/", "1">>>>}}

\* The bot receives a text message of the user and the dispatcher runs the
\* handler for it to its end.
UserMessage(text) ==
    /\ chat.messages < MaxMessages
    /\ chat' = handle(chat, text)
    /\ UNCHANGED <<TELETHON_AVAILABLE, connected, authorized, cache, now, task,
                   started, ticks, last_scan, op, io, call, shop>>

NextChat == \E text \in UserTexts : UserMessage(text)

SpecChat == InitPure /\ [][NextChat]_vars

(***************************************************************************)
(* The body of the message loop of search_channel_messages from the        *)
(* return of extract_relevant_sentences on, for long sentences.            *)
(***************************************************************************)

\* The largest number of relevant sentences of a message.
MaxSentences == 4

\* "python", then words of nine letters after one space each up to n - 1
\* characters, then a full stop: a relevant sentence of n characters.
LongSentence(n) ==
    WordPython \o [k \in 1..(n - 7) |-> IF k % 10 = 1 THEN " " ELSE "x"]
        \o <<".">>

\* What extract_relevant_sentences returns for a message: normalized
\* sentences of more than 10 characters, here of 99, 100, 16 and 11.
RelevantSentenceLists ==
    SeqsUpTo({LongSentence(99), LongSentence(100), TextMatch, SentenceEleven},
             MaxSentences)

\* One message of the channel @a goes through the body of the loop: it is
\* skipped, or a SearchResult is made of it and appended to the results.
MessageLoopBody(relevant_sentences) ==
    /\ call = NoApplication
    /\ call' = [fn |-> "message_loop_body",
                relevant_sentences |-> relevant_sentences,
                results |-> IF relevant_sentences = <<>>
                            THEN <<>>
                            ELSE <<make_result(Entities[ChA], ChA, 1, MessageDate,
                                               relevant_sentences)>>]
    /\ UNCHANGED <<TELETHON_AVAILABLE, connected, authorized, cache, now, task,
                   started, ticks, last_scan, op, io, chat, shop>>

NextSnippet ==
    \E relevant_sentences \in RelevantSentenceLists :
        MessageLoopBody(relevant_sentences)

SpecSnippet == InitPure /\ [][NextSnippet]_vars

(***************************************************************************)
(* levenshtein_distance called directly.                                   *)
(***************************************************************************)

\* The longest string given to levenshtein_distance.
MaxWordLen == 4

DistanceWords == SeqsUpTo({"a", "b"}, MaxWordLen)

\* levenshtein_distance(s1, s2), and the same with the arguments exchanged.
LevenshteinDistance(s1, s2) ==
    /\ call = NoApplication
    /\ call' = [fn |-> "levenshtein_distance", s1 |-> s1, s2 |-> s2,
                ret |-> levenshtein_distance(s1, s2),
                exchanged |-> levenshtein_distance(s2, s1)]
    /\ UNCHANGED <<TELETHON_AVAILABLE, connected, authorized, cache, now, task,
                   started, ticks, last_scan, op, io, chat, shop>>

NextDistance == \E s1 \in DistanceWords, s2 \in DistanceWords : LevenshteinDistance(s1, s2)

SpecDistance == InitPure /\ [][NextDistance]_vars

(***************************************************************************)
(* Searches of a client whose session can be lost between its answers.     *)
(***************************************************************************)

\* The connection drops, or the authorization of the session is revoked:
\* what is_connected() and is_user_authorized() answer from now on.
SessionLost ==
    /\ \/ connected /\ connected' = FALSE /\ UNCHANGED authorized
       \/ authorized /\ authorized' = FALSE /\ UNCHANGED connected
    /\ UNCHANGED <<TELETHON_AVAILABLE, cache, now, task, started, ticks,
                   last_scan, op, io, call, chat, shop>>

NextFail ==
    \/ \E p \in Searchers, force_refresh \in BOOLEAN :
           Call(p, <<ChA, ChB>>, <<KwPython>>, 2, force_refresh)
    \/ \E p \in Searchers : Connect(p)
    \/ \E p \in Searchers : IsUserAuthorized(p)
    \/ \E p \in Searchers : GetEntity(p)
    \/ \E p \in Searchers : IterMessages(p)
    \/ \E p \in Searchers : HandlerReturns(p)
    \/ \E d \in TickSteps : Tick(d)
    \/ SessionLost

SpecFail == Init /\ [][NextFail]_vars

(***************************************************************************)
(* ShopAPIClient.send_products: validation, the attempts of the request    *)
(* and the response it returns.  shop.posts holds what each               *)
(* session.post of the running call met, shop.sleeps the delays slept      *)
(* between attempts, shop.returned the response (none while running).      *)
(***************************************************************************)
max_retries == 3

retry_delay == 1

APIResponse(success, status_code, error_type) ==
    [success |-> success, status_code |-> status_code,
     error_type |-> error_type]

is_blank(s) == strip(s) = <<>>

RECURSIVE validate_products_from(_, _)
validate_products_from(products, k) ==
    IF k > Len(products) THEN <<>>
    ELSE IF is_blank(products[k][1])
              THEN <<APIResponse(FALSE, 0, "validation_error")>>
    ELSE IF products[k][2] < 0
              THEN <<APIResponse(FALSE, 0, "validation_error")>>
    ELSE validate_products_from(products, k + 1)

\* _validate_input_data: an error response, or nothing for valid data.
\* products are the items of the dictionary, <<name, quantity>> each.
_validate_input_data(client_id, api_key, products) ==
    IF is_blank(client_id) THEN <<APIResponse(FALSE, 0, "validation_error")>>
    ELSE IF is_blank(api_key)
              THEN <<APIResponse(FALSE, 0, "validation_error")>>
    ELSE IF Len(products) = 0
              THEN <<APIResponse(FALSE, 0, "validation_error")>>
    ELSE validate_products_from(products, 1)

\* What session.post meets: a response of the server, or an exception.
Answer(status, json, readable) ==
    [kind |-> "response", status |-> status, json |-> json,
     readable |-> readable]

Raises(exception) == [kind |-> "raises", exception |-> exception]

_handle_success_response(outcome) ==
    IF outcome.json THEN APIResponse(TRUE, outcome.status, None)
    ELSE APIResponse(FALSE, outcome.status, "server_error")

\* _send_request: the response it returns, or the exception that leaves it.
_send_request(outcome) ==
    IF outcome.kind = "raises"
    THEN IF outcome.exception = "TimeoutError"
         THEN [raised |-> None,
               response |-> <<APIResponse(FALSE, 0, "timeout_error")>>]
         ELSE IF outcome.exception = "ClientConnectorError"
         THEN [raised |-> None,
               response |-> <<APIResponse(FALSE, 0, "network_error")>>]
         ELSE IF outcome.exception = "ClientError"
         THEN [raised |-> None,
               response |-> <<APIResponse(FALSE, 0, "network_error")>>]
         ELSE [raised |-> outcome.exception, response |-> <<>>]
    ELSE [raised |-> None,
          response |-> <<
            IF ~outcome.readable
                THEN APIResponse(FALSE, outcome.status, "server_error")
            ELSE IF outcome.status = 200
                THEN _handle_success_response(outcome)
            ELSE IF outcome.status = 401 \/ outcome.status = 403
                THEN APIResponse(FALSE, outcome.status, "auth_error")
            ELSE IF outcome.status = 422 \/ outcome.status = 400
                THEN APIResponse(FALSE, outcome.status, "validation_error")
            ELSE IF outcome.status >= 500
                THEN APIResponse(FALSE, outcome.status, "server_error")
            ELSE IF outcome.status = 429
                THEN APIResponse(FALSE, outcome.status, "server_error")
            ELSE APIResponse(FALSE, outcome.status, "unknown_error") >>]

\* except (aiohttp.ClientError, asyncio.TimeoutError)
is_network_exception(exception) ==
    exception \in {"ClientError", "ClientConnectorError", "TimeoutError"}

MaxSends == 2

ClientIds == {<<>>, <<" ">>, <<"c">>}

ApiKeys == {<<>>, <<" ">>, <<"k">>}

ProductDicts ==
    {<<>>, <<<< <<"a">>, 1 >>>>, <<<< <<"a">>, -1 >>>>, <<<< <<" ">>, 1 >>>>,
     <<<< <<"a">>, 0 >>, << <<"b">>, 2 >>>>}

Outcomes ==
    {Answer(200, TRUE, TRUE), Answer(200, FALSE, TRUE),
     Answer(200, TRUE, FALSE), Answer(401, TRUE, TRUE),
     Answer(422, TRUE, TRUE), Answer(500, FALSE, TRUE),
     Answer(429, TRUE, TRUE), Answer(404, FALSE, TRUE),
     Raises("TimeoutError"), Raises("ClientConnectorError"),
     Raises("ClientError"), Raises("RuntimeError")}

\* send_products up to the first await of _send_request.
SendProducts(client_id, api_key, products) ==
    /\ shop.pc = "idle"
    /\ shop.sends < MaxSends
    /\ LET validation_error ==
               _validate_input_data(client_id, api_key, products)
           called == [shop EXCEPT !.request = <<client_id, api_key, products>>,
                                  !.attempt = 0, !.posts = <<>>,
                                  !.sleeps = <<>>, !.returned = <<>>,
                                  !.sends = @ + 1]
       IN  shop' = IF validation_error # <<>>
                   THEN [called EXCEPT !.pc = "returned",
                                       !.returned = validation_error]
                   ELSE [called EXCEPT !.pc = "post"]
    /\ UNCHANGED <<TELETHON_AVAILABLE, connected, authorized, cache, now, task,
                   started, ticks, last_scan, op, io, call, chat>>

\* One pass of the loop of send_products: _send_request to its end, then
\* the return, or the handler of the exception and the sleep before the
\* next pass.
PostCompletes(outcome) ==
    /\ shop.pc = "post"
    /\ LET r == _send_request(outcome)
           posted == [shop EXCEPT !.posts = Append(@, outcome)]
       IN  shop' =
             IF r.raised = None
             THEN [posted EXCEPT !.pc = "returned", !.returned = r.response]
             ELSE IF is_network_exception(r.raised)
             THEN IF shop.attempt = max_retries
                  THEN [posted EXCEPT
                          !.pc = "returned",
                          !.returned =
                              <<APIResponse(FALSE, 0, "network_error")>>]
                  ELSE [posted EXCEPT
                          !.sleeps =
                              Append(@, retry_delay * (shop.attempt + 1)),
                          !.attempt = @ + 1]
             ELSE [posted EXCEPT
                     !.pc = "returned",
                     !.returned = <<APIResponse(FALSE, 0, "unknown_error")>>]
    /\ UNCHANGED <<TELETHON_AVAILABLE, connected, authorized, cache, now, task,
                   started, ticks, last_scan, op, io, call, chat>>

\* The caller has the response; the client can be called again.
SendProductsReturns ==
    /\ shop.pc = "returned"
    /\ shop' = [shop EXCEPT !.pc = "idle"]
    /\ UNCHANGED <<TELETHON_AVAILABLE, connected, authorized, cache, now, task,
                   started, ticks, last_scan, op, io, call, chat>>

NextShop ==
    \/ \E client_id \in ClientIds, api_key \in ApiKeys,
          products \in ProductDicts :
           SendProducts(client_id, api_key, products)
    \/ \E outcome \in Outcomes : PostCompletes(outcome)
    \/ SendProductsReturns

SpecShop == InitPure /\ [][NextShop]_vars

(***************************************************************************)
(* Properties                                                              *)
(***************************************************************************)

\* The step of p is a call of search_channel_messages.
IsCall(p) == task[p].pc = "idle" /\ task'[p].pc # "idle"

\* The step of p is the normal return of a search that scanned.
ScanReturns(p) ==
    /\ task[p].pc \notin {"idle", "done", "failed"}
    /\ task'[p].pc = "done"
    /\ task'[p].served = "scan"

\* The cache holds a record for the key k that is at most 3600 seconds old.
Unexpired(k) == k \in DOMAIN cache /\ now - cache[k].timestamp <= 3600

\* The results are, field by field and in order, the stored items.
SameResults(results, items) ==
    /\ Len(results) = Len(items)
    /\ \A n \in 1..Len(results) :
           /\ DOMAIN items[n] = SearchResultFields
           /\ \A f \in SearchResultFields : results[n][f] = items[n][f]

\* The position in channels of the channel whose results carry the title.
ChannelPosition(channels, title) ==
    CHOOSE n \in 1..Len(channels) :
        channel_title(Entities[channels[n]], channels[n]) = title

C2_ErrorReachesCaller ==
    \A p \in AllSearchers :
        (task[p].pc = "done" /\ task[p].served # "cache")
        => TELETHON_AVAILABLE /\ connected /\ authorized

\* C3 (as stated): once the search is in the channel loop no failure of a
\* channel makes it raise: a search that raised never awaited get_entity.
C3_ChannelFailureSkipped ==
    \A p \in AllSearchers :
        task[p].pc = "failed" => "get_entity" \notin task[p].client_calls

\* C4 (as stated): after an error in the processing of a message that has
\* messages after it in the channel, the search goes on with the messages of
\* the same channel.
C4_OnlyMessageSkipped ==
    [][\A p \in AllSearchers :
          (/\ task[p].pc = "iter_messages"
           /\ task'[p].message_errors > task[p].message_errors
           /\ task[p].nread + 1 < Len(Histories[task[p].channels[task[p].i]]))
          => /\ task'[p].pc = "iter_messages"
             /\ task'[p].i = task[p].i
             /\ task'[p].nread = task[p].nread + 1]_vars

\* C4 (amended): an error in the processing of a message ends the reading of
\* its channel: the results found so far are kept, no later message of the
\* channel is read, and the search goes on with the next channel or, after
\* the last channel, saves and returns the results.
C4_RestOfChannelSkipped ==
    [][\A p \in AllSearchers :
          (/\ task[p].pc = "iter_messages"
           /\ task'[p].message_errors > task[p].message_errors)
          => /\ task'[p].results = task[p].results
             /\ \/ /\ task'[p].pc = "get_entity"
                   /\ task'[p].i = task[p].i + 1
                   /\ task'[p].nread = 0
                \/ /\ task'[p].pc = "done"
                   /\ task[p].i = Len(task[p].channels)
                   /\ task'[p].returned = task[p].results]_vars

\* C4 witness: a search returned a result of the channel after the one in
\* which the processing of a message raised.
C4_Witness ==
    \E p \in AllSearchers :
        /\ task[p].pc = "done"
        /\ task[p].served = "scan"
        /\ task[p].message_errors = 1
        /\ task[p].channels = <<ChB, ChA>>
        /\ Len(task[p].origin) = 2
        /\ task[p].origin[2][1] = 2

\* C5: the sequence a search returns is never longer than its limit.
C5_AtMostLimit ==
    \A p \in AllSearchers :
        task[p].pc = "done" => Len(task[p].returned) <= task[p].limit

\* C5 witness: a scan of a channel with two matching messages returned one
\* result under the limit 1.
C5_Witness ==
    \E p \in AllSearchers :
        /\ task[p].pc = "done"
        /\ task[p].served = "scan"
        /\ task[p].limit = 1
        /\ task[p].channels[1] = ChA
        /\ task[p].origin = <<<<1, 1>>>>
        /\ Len(task[p].returned) = 1

\* C6: while a search awaits the resolution of a channel or its next message
\* it has fewer results than its limit, and a scan that returned with the
\* limit reached looked up no channel after the one of its last result (no
\* channel at all under the limit 0).
C6_StopsAtLimit ==
    \A p \in AllSearchers :
        /\ task[p].pc \in {"get_entity", "iter_messages"}
           => Len(task[p].results) < task[p].limit
        /\ (/\ task[p].pc = "done"
            /\ task[p].served = "scan"
            /\ Len(task[p].returned) >= task[p].limit)
           => IF task[p].limit = 0
              THEN /\ task[p].i = 0
                   /\ task[p].client_calls \cap {"get_entity", "iter_messages"} = {}
              ELSE /\ task[p].i = task[p].origin[Len(task[p].origin)][1]
                   /\ task[p].nread = task[p].origin[Len(task[p].origin)][2]

\* C6 witness: a scan reached its limit in the first channel, before the last
\* message of that channel, and never looked up the second channel.
C6_Witness ==
    \E p \in AllSearchers :
        /\ task[p].pc = "done"
        /\ task[p].served = "scan"
        /\ task[p].limit = 2
        /\ Len(task[p].returned) = 2
        /\ task[p].i = 1
        /\ Len(task[p].channels) = 2

\* C7 (as stated): the results a search returns are ordered by the position
\* of their channel in the channels of the call and, within a channel, as
\* the reader yielded them (ids descending).
C7_InputOrder ==
    \A p \in AllSearchers :
        task[p].pc = "done"
        => \A a, b \in 1..Len(task[p].returned) :
               a < b
               => LET pa == ChannelPosition(task[p].channels, task[p].returned[a].channel)
                      pb == ChannelPosition(task[p].channels, task[p].returned[b].channel)
                  IN  /\ pa <= pb
                      /\ pa = pb
                         => task[p].returned[a].message_id > task[p].returned[b].message_id

\* C8: a scan that returns normally leaves under its key a record with the
\* time of the return and exactly the results returned, whatever their
\* number; and a search without force_refresh for that key, called at most
\* 3600 seconds after the last such return, returns those results from the
\* cache without awaiting the client.
C8_ScanFillsCache ==
    [][\A p \in AllSearchers :
          /\ ScanReturns(p)
             => /\ task'[p].cache_key \in DOMAIN cache'
                /\ cache'[task'[p].cache_key].timestamp = now
                /\ SameResults(task'[p].returned, cache'[task'[p].cache_key].results)
          /\ (/\ IsCall(p)
              /\ ~task'[p].force_refresh
              /\ last_scan.valid
              /\ last_scan.cache_key = task'[p].cache_key
              /\ now - last_scan.at <= 3600)
             => /\ task'[p].pc = "done"
                /\ task'[p].served = "cache"
                /\ task'[p].returned = last_scan.results
                /\ task'[p].client_calls = {}]_vars

\* C8 witness: a search with a positive limit is served, 3600 seconds later,
\* the empty result set that the last scan for its key returned.
C8_Witness ==
    \E p \in AllSearchers :
        /\ task[p].pc = "done"
        /\ task[p].served = "cache"
        /\ task[p].limit > 0
        /\ task[p].returned = <<>>
        /\ last_scan.valid
        /\ last_scan.cache_key = task[p].cache_key
        /\ last_scan.results = <<>>
        /\ now - last_scan.at = 3600

\* C9: a load that follows at once the store of the results R under the same
\* key returns R.
C9_StoreThenLoad ==
    (/\ op.name = "load"
     /\ op.prev.name = "store"
     /\ op.prev.cache_key = op.cache_key
     /\ op.prev.at = op.at)
    => ~op.is_none /\ op.results = op.prev.results

\* C9 witness: the load that followed the store of the empty sequence
\* returned the empty sequence, not None.
C9_Witness ==
    /\ op.name = "load"
    /\ op.prev.name = "store"
    /\ op.prev.cache_key = op.cache_key
    /\ op.prev.at = op.at
    /\ op.prev.results = <<>>
    /\ ~op.is_none
    /\ op.results = <<>>

\* C10: a load of a key that has a record returns the stored results and
\* leaves the cache alone while the record is at most 3600 seconds old, and
\* returns None and deletes the record when it is older; a record leaves the
\* cache only in that way.
C10_Expiry ==
    [][/\ (op' # op /\ op'.name = "load" /\ op'.cache_key \in DOMAIN cache)
          => IF now - cache[op'.cache_key].timestamp <= 3600
             THEN /\ ~op'.is_none
                  /\ SameResults(op'.results, cache[op'.cache_key].results)
                  /\ cache' = cache
             ELSE /\ op'.is_none
                  /\ op'.cache_key \notin DOMAIN cache'
       /\ \A k \in DOMAIN cache :
             k \notin DOMAIN cache'
             => /\ op'.name = "load"
                /\ op'.cache_key = k
                /\ now - cache[k].timestamp > 3600]_vars

\* C10 witness: the load of a record stored 3601 seconds earlier returned None
\* and deleted the record.
C10_Witness ==
    /\ op.name = "load"
    /\ op.is_none
    /\ op.prev.name = "store"
    /\ op.prev.cache_key = op.cache_key
    /\ op.at - op.prev.at = 3601
    /\ op.cache_key \notin DOMAIN cache

\* C11: a search that reads the cache and finds a record it cannot read or
\* parse goes on as after a miss; a search whose write of the cache fails
\* returns the results of its scan all the same; and a search raises only
\* out of an operation of the client, never out of the cache.
C11_CacheFaultsSwallowed ==
    [][\A p \in AllSearchers :
          /\ (/\ IsCall(p)
              /\ TELETHON_AVAILABLE
              /\ ~task'[p].force_refresh
              /\ task'[p].cache_key \in DOMAIN cache
              /\ \/ io \in ReadFaults
                 \/ cache[task'[p].cache_key] = Unparseable)
             => /\ task'[p].pc \in {"connect", "is_user_authorized"}
                /\ task'[p].cache_warnings = {"read"}
          /\ (/\ task'[p] # task[p]
              /\ io \in WriteFaults
              /\ io' = "ok")
             => /\ task'[p].pc = "done"
                /\ task'[p].served = "scan"
                /\ task'[p].returned = task'[p].results
                /\ "write" \in task'[p].cache_warnings
          /\ (task'[p].pc = "failed" /\ task[p].pc # "failed")
             => task[p].pc \in {"connect", "is_user_authorized", "get_entity"}]_vars

\* C11 witness: a search whose read of the cache failed and whose write of
\* the cache failed has returned the two results of its scan.
C11_Witness ==
    \E p \in AllSearchers :
        /\ task[p].pc = "done"
        /\ task[p].served = "scan"
        /\ task[p].cache_warnings = {"read", "write"}
        /\ Len(task[p].returned) = 2

\* The list b is a permutation of the list a.
IsPermutation(a, b) ==
    /\ Len(a) = Len(b)
    /\ \E f \in Permutations(1..Len(a)) : \A n \in 1..Len(a) : b[n] = a[f[n]]

\* C12: two calls of get_cache_key with the same limit, with channel lists
\* that are permutations of each other and keyword lists that are
\* permutations of each other, return the same key.
C12_KeyOrderIndependent ==
    [][(/\ call.fn = "get_cache_key"
        /\ call'.fn = "get_cache_key"
        /\ call'.limit = call.limit
        /\ IsPermutation(call.channels, call'.channels)
        /\ IsPermutation(call.keywords, call'.keywords))
       => call'.key = call.key]_vars

\* C12 witness: the key of the channels @b, @a and the keywords Python, go
\* is made of the channels @a, @b and the keywords Python, go ("P" < "g").
C12_Witness ==
    /\ call.fn = "get_cache_key"
    /\ call.channels = <<ChB, ChA>>
    /\ call.keywords = <<KwGo, KwPython>>
    /\ call.key = <<<<ChA, ChB>>, <<KwPython, KwGo>>, call.limit>>

\* C13: a search called with force_refresh true leaves the cache unread and
\* is never served from it: with a valid record under its key it still
\* starts a scan, and when the scan returns the record of the key holds the
\* time of the return and the results returned.
C13_ForcedRefresh ==
    [][\A p \in AllSearchers :
          /\ (IsCall(p) /\ task'[p].force_refresh)
             => /\ cache' = cache
                /\ task'[p].served # "cache"
                /\ task'[p].had_entry
                   => task'[p].pc \in {"connect", "is_user_authorized"}
          /\ (ScanReturns(p) /\ task[p].force_refresh)
             => /\ task'[p].cache_key \in DOMAIN cache'
                /\ cache'[task'[p].cache_key].timestamp = now
                /\ SameResults(task'[p].returned, cache'[task'[p].cache_key].results)]_vars

\* C13 witness: a forced search called over a valid record has scanned and
\* returned 3600 seconds after the record was written, and the record now
\* carries the time of this return.
C13_Witness ==
    \E p \in AllSearchers :
        /\ task[p].pc = "done"
        /\ task[p].served = "scan"
        /\ task[p].force_refresh
        /\ task[p].had_entry
        /\ now = 3600
        /\ cache[task[p].cache_key].timestamp = 3600

\* The search p has been called and has neither returned nor raised.
InFlight(p) == task[p].pc \notin {"idle", "done", "failed"}

\* C14: of a forced and a non-forced search for one key that interleave,
\* each ends (it returns, or raises out of the client) whatever the other
\* does, each scan that returns writes exactly its own results under the
\* key, and the record of the key is always the result set of the scan that
\* returned last.
C14_LastWriteWins ==
    /\ [][\A p \in AllSearchers :
             ScanReturns(p)
             => /\ task'[p].cache_key \in DOMAIN cache'
                /\ SameResults(task'[p].returned, cache'[task'[p].cache_key].results)]_vars
    /\ [](last_scan.valid
          => /\ last_scan.cache_key \in DOMAIN cache
             /\ SameResults(last_scan.results, cache[last_scan.cache_key].results))
    /\ \A p \in AllSearchers :
           InFlight(p) ~> (task[p].pc \in {"done", "failed"})

\* C14 witness: both searches have scanned and returned different result
\* sets; the non-forced one, called before the forced one had written,
\* returned last and the record is its result set.
C14_Witness ==
    /\ task["s1"].pc = "done"
    /\ task["s1"].served = "scan"
    /\ task["s2"].pc = "done"
    /\ task["s2"].served = "scan"
    /\ task["s1"].cache_key = task["s2"].cache_key
    /\ Len(task["s1"].returned) = 2
    /\ Len(task["s2"].returned) = 1
    /\ last_scan.results = task["s2"].returned
    /\ SameResults(task["s2"].returned, cache[task["s2"].cache_key].results)

\* The Levenshtein distance of two strings: the least number of insertions,
\* deletions and substitutions of one character that turn a into b.
EditDistance(a, b) ==
    LET d[i \in 0..Len(a), j \in 0..Len(b)] ==
            IF i = 0 THEN j
            ELSE IF j = 0 THEN i
            ELSE LET ins == d[i, j - 1] + 1
                     del == d[i - 1, j] + 1
                     sub == d[i - 1, j - 1] + (IF a[i] = b[j] THEN 0 ELSE 1)
                 IN  IF ins <= del /\ ins <= sub THEN ins
                     ELSE IF del <= sub THEN del ELSE sub
    IN  d[Len(a), Len(b)]

\* The suffix rule: one of the strings is the other one followed by an ending.
SuffixRelated(w, k) ==
    \E e \in {endings[n] : n \in 1..Len(endings)} : w = k \o e \/ k = w \o e

\* C15: fuzzy_match_word is true when the lower-cased keyword equals the
\* lower-cased word or occurs in it.
C15_EqualOrSubstring ==
    call.fn = "fuzzy_match_word"
    => ((lower(call.keyword) = lower(call.word)
         \/ IsSubstring(lower(call.keyword), lower(call.word)))
        => call.ret)

\* C15 witness: the keyword "thon" matched the word "pythonista", in which it
\* occurs but which is too long and too far for the other checks.
C15_Witness ==
    /\ call.fn = "fuzzy_match_word"
    /\ call.word = WordPythonista
    /\ call.keyword = KwThon
    /\ call.ret

\* C16: fuzzy_match_word is true for a keyword of at most 6 characters and a
\* word of at most 8 whose Levenshtein distance is at most 2.
C16_ShortEditDistance ==
    call.fn = "fuzzy_match_word"
    => ((/\ Len(call.keyword) <= 6
         /\ Len(call.word) <= 8
         /\ EditDistance(lower(call.word), lower(call.keyword)) <= 2)
        => call.ret)

\* C16 witness: the keyword "Python" matched the word "pythoman" (8
\* characters, distance 2, no substring or suffix relation).
C16_Witness ==
    /\ call.fn = "fuzzy_match_word"
    /\ call.word = WordPythoman
    /\ call.keyword = KwPython
    /\ EditDistance(lower(call.word), lower(call.keyword)) = 2
    /\ ~IsSubstring(lower(call.keyword), lower(call.word))
    /\ ~SuffixRelated(lower(call.word), lower(call.keyword))
    /\ call.ret

\* C17: fuzzy_match_word is true exactly when the lower-cased strings are
\* equal, or the keyword occurs in the word, or the suffix rule relates them,
\* or the keyword has at most 6 characters, the word at most 8 and their
\* Levenshtein distance is at most 2.
C17_ExactlyFourChecks ==
    call.fn = "fuzzy_match_word"
    => (call.ret
        <=> \/ lower(call.word) = lower(call.keyword)
            \/ IsSubstring(lower(call.keyword), lower(call.word))
            \/ SuffixRelated(lower(call.word), lower(call.keyword))
            \/ /\ Len(call.keyword) <= 6
               /\ Len(call.word) <= 8
               /\ EditDistance(lower(call.word), lower(call.keyword)) <= 2)

\* C17 witness: the keyword "pythons" (7 characters) did not match the word
\* "pythom", at distance 2 from it.
C17_Witness ==
    /\ call.fn = "fuzzy_match_word"
    /\ call.word = WordPythom
    /\ call.keyword = KwPythons
    /\ EditDistance(call.word, call.keyword) = 2
    /\ ~call.ret

\* The sentence with its runs of whitespace collapsed and its ends trimmed.
Normalized(sentence) == str_join(<<" ">>, str_split(sentence))

\* The sentence candidates of a text.
Candidates(text) == re_split_sentences(strip(text))

\* One of the words of the sentence matches one of the keywords.
HasMatchingToken(sentence, keywords) ==
    LET words == re_findall_words(lower(sentence))
    IN  \E w \in 1..Len(words), k \in 1..Len(keywords) :
            fuzzy_match_word(words[w], keywords[k])

\* The list a is made of elements of the list b, in the order of b.
IsSubsequence(a, b) ==
    \E f \in [1..Len(a) -> 1..Len(b)] :
        /\ \A n \in 1..Len(a) : a[n] = b[f[n]]
        /\ \A n, m \in 1..Len(a) : n < m => f[n] < f[m]

\* C18 (as stated): a relevant sentence candidate is in the output exactly
\* when its normalized form has at least 10 characters.
C18_AtLeastTenKept ==
    call.fn = "extract_relevant_sentences"
    => \A n \in 1..Len(Candidates(call.text)) :
           LET sentence == Candidates(call.text)[n]
           IN  HasMatchingToken(sentence, call.keywords)
               => (Len(Normalized(sentence)) >= 10
                   <=> \E r \in 1..Len(call.ret) : call.ret[r] = Normalized(sentence))

\* C19: the extractor applied to its own output, joined by spaces into one
\* text, with the same keywords returns that output.
C19_Idempotent ==
    call.fn = "extract_relevant_sentences"
    => \A sep \in JoinSeparators : call.again[sep] = call.ret

\* C19 witness: two sentences were extracted from a text with a line break
\* between them, and extracted again from their join.
C19_Witness ==
    /\ call.fn = "extract_relevant_sentences"
    /\ call.text = SentenceEleven \o <<"\n", " ">> \o TextMatch
    /\ call.ret = <<SentenceEleven, TextMatch>>
    /\ \A sep \in JoinSeparators : call.again[sep] = call.ret

\* C20: every sentence of the output has a word that matches a keyword, the
\* output is made of normalized sentence candidates of the text in their
\* order, and a call that follows another with the same arguments returns
\* the same list.
C20_OnlyMatchingInOrder ==
    /\ [](call.fn = "extract_relevant_sentences"
          => /\ \A r \in 1..Len(call.ret) :
                    HasMatchingToken(call.ret[r], call.keywords)
             /\ IsSubsequence(call.ret,
                    [n \in 1..Len(Candidates(call.text)) |->
                        Normalized(Candidates(call.text)[n])]))
    /\ [][(/\ call.fn = "extract_relevant_sentences"
           /\ call'.fn = "extract_relevant_sentences"
           /\ call'.text = call.text
           /\ call'.keywords = call.keywords)
          => call'.ret = call.ret]_vars

\* C20 witness: of the two sentences of a text only the second, which has a
\* word that matches, was returned.
C20_Witness ==
    /\ call.fn = "extract_relevant_sentences"
    /\ call.text = SentenceBanana \o <<" ">> \o TextMatch
    /\ call.keywords = <<WordPython>>
    /\ call.ret = <<TextMatch>>
    /\ call.nth = MaxCalls

\* C21: extract_relevant_sentences returns the empty list when the text is
\* empty or the list of keywords is empty.
C21_EmptyArgumentEmptyResult ==
    (/\ call.fn = "extract_relevant_sentences"
     /\ (call.text = <<>> \/ call.keywords = <<>>))
    => call.ret = <<>>

\* C21 witness: a text of two sentences and no keywords gave the empty list.
C21_Witness ==
    /\ call.fn = "extract_relevant_sentences"
    /\ call.text = SentenceEleven \o <<" ">> \o TextMatch
    /\ call.keywords = <<>>
    /\ call.ret = <<>>

\* The last page of n results at per_page a page: ceil(n / per_page).
LastPage(n, per_page) == (n + per_page - 1) \div per_page

\* The positions in the full list that a page stands for.
PagePositions(n, page, per_page) ==
    IF page \in 1..LastPage(n, per_page)
    THEN [k \in 1..(IF page * per_page < n THEN per_page
                    ELSE n - (page - 1) * per_page) |->
             (page - 1) * per_page + k]
    ELSE <<>>

\* The numbered lines of a response, and the numbers on them.
IsEntry(line) == line # <<>> /\ line[1] \in {"b", "row"}
EntryNumbers(response) ==
    LET entries == SelectSeq(response, IsEntry)
    IN  [k \in 1..Len(entries) |-> entries[k][2]]

\* C22 (as stated): the text of a page shows the results at the positions
\* (page-1)*per_page+1 .. min(page*per_page, n), each with its position as
\* its number, and shows no entry for a page outside 1..ceil(n/per_page).
C22_PageShowsItsSlice ==
    (call.fn = "format_search_results" /\ ~call.use_table)
    => LET n == Len(call.results)
           positions == PagePositions(n, call.page, call.per_page)
           entries == SelectSeq(call.ret, IsEntry)
       IN  /\ EntryNumbers(call.ret) = positions
           /\ \A k \in 1..Len(entries) :
                  entries[k][3] = call.results[positions[k]].channel

\* The first line of a response is the header of one of the two modes.
HasHeader(response) ==
    response # <<>> /\ response[1][1] \in {"header_text", "header_table"}

\* C23 (as stated): for an empty list both modes return the fixed message;
\* for a non-empty list the fixed message is never returned, and a page out
\* of range gives the header and no entry.
C23_NoMatchesOnlyWhenEmpty ==
    call.fn = "format_search_results"
    => /\ call.results = <<>> => call.ret = NoMatchesMessage
       /\ call.results # <<>>
          => /\ call.ret # NoMatchesMessage
             /\ HasHeader(call.ret)
             /\ call.page \notin 1..LastPage(Len(call.results), call.per_page)
                => EntryNumbers(call.ret) = <<>>

\* C25 (as stated): every saved request has at most 10 keywords of 2 to 50
\* characters and at most 5 channels, each an "@" followed by a name.
C25_SavedRequestWithinLimits ==
    \A n \in 1..Len(chat.requests) :
        LET request == chat.requests[n]
        IN  /\ Len(request.keywords) <= 10
            /\ \A k \in 1..Len(request.keywords) :
                   Len(request.keywords[k]) \in 2..50
            /\ Len(request.channels) <= 5
            /\ \A k \in 1..Len(request.channels) :
                   /\ Len(request.channels[k]) >= 2
                   /\ request.channels[k][1] = "@"

\* The text is made of channels only.
IsChannelsOnly(text) ==
    /\ str_split(text) # <<>>
    /\ \A k \in 1..Len(str_split(text)) : is_channel_part(str_split(text)[k])
    /\ validate_channels(str_split(text)) # <<>>

\* C26 (as stated): when the bot has asked for the channels after a message
\* of 1 to 3 keywords, the next message, made of channels only, saves a
\* request with the stored keywords and these channels, and the
\* conversation is idle again.
C26_StepByStepSaves ==
    [][(/\ chat.state = "SearchForm:channels"
        /\ chat.answers = <<"ask_channels">>
        /\ Len(chat.data.keywords) \in 1..3
        /\ chat'.messages = chat.messages + 1
        /\ IsChannelsOnly(chat'.text))
       => /\ chat'.state = None
          /\ chat'.requests =
                 Append(chat.requests,
                        SearchRequest(chat.data.keywords,
                                      validate_channels(str_split(chat'.text))))]_vars

\* C30: every request file written has at least one keyword and at least
\* one channel.
C30_SavedRequestNotEmpty ==
    \A n \in 1..Len(chat.requests) :
        /\ chat.requests[n].keywords # <<>>
        /\ chat.requests[n].channels # <<>>

\* C30 witness: a request was saved, then a message of keywords only was
\* answered with the question for channels, then a message of channels only
\* was refused; one request file exists.
C30_Witness ==
    /\ chat.messages = 3
    /\ Len(chat.requests) = 1
    /\ chat.requests[1] = SearchRequest(<<KwPy, KwDev>>, <<AtA, <<"@", "b">>>>)
    /\ chat.state = "SearchForm:channels"
    /\ chat.text = str_join(<<" ">>, <<AtA, <<"@", "b">>>>)
    /\ chat.answers = <<"no_keywords">>

\* C24: the snippet of a SearchResult is not empty, has at most 200
\* characters, and is the first 3 relevant sentences of the message (all of
\* them when there are fewer) joined by spaces, or the first 197 characters
\* of that and "..." when that is longer than 200.
C24_SnippetBounded ==
    (call.fn = "message_loop_body" /\ call.results # <<>>)
    => LET sentences == call.relevant_sentences
           joined ==
               str_join(<<" ">>,
                        [k \in 1..(IF Len(sentences) < 3 THEN Len(sentences) ELSE 3) |->
                            sentences[k]])
           snippet == call.results[1].snippet
       IN  /\ snippet # <<>>
           /\ Len(snippet) <= 200
           /\ Len(joined) <= 200 => snippet = joined
           /\ Len(joined) > 200
              => snippet = [k \in 1..200 |-> IF k <= 197 THEN joined[k] ELSE "."]

\* C24 witness: two sentences of 100 characters join to 201 characters and
\* the snippet is cut to 200.
C24_Witness ==
    /\ call.fn = "message_loop_body"
    /\ call.relevant_sentences = <<LongSentence(100), LongSentence(100)>>
    /\ call.results # <<>>
    /\ Len(call.results[1].snippet) = 200
    /\ SubSeq(call.results[1].snippet, 197, 200) = <<"x", ".", ".", ".">>

\* C28: levenshtein_distance returns the least number of insertions,
\* deletions and substitutions of one character that turn one string into
\* the other, and the same number when the arguments are exchanged.
C28_TrueDistanceSymmetric ==
    call.fn = "levenshtein_distance"
    => /\ call.ret = EditDistance(call.s1, call.s2)
       /\ call.ret = call.exchanged

\* C28 witness: the shorter string came first, and the distance of "ab" and
\* "baab" is 2 in both orders.
C28_Witness ==
    /\ call.fn = "levenshtein_distance"
    /\ call.s1 = <<"a", "b">>
    /\ call.s2 = <<"b", "a", "a", "b">>
    /\ call.ret = 2
    /\ call.exchanged = 2

\* The directory without the file of the key k.
Without(cache_dir, k) == [j \in DOMAIN cache_dir \ {k} |-> cache_dir[j]]

\* The search p is in ensure_telethon_connected.
Ensuring(p) == task[p].pc \in {"connect", "is_user_authorized"}

\* C29: every step of a search that fails in ensure_telethon_connected
\* leaves the cache as it is, but for the call itself, which may delete the
\* record of its key when that record is more than CACHE_TTL seconds old.
C29_FailedSearchKeepsCache ==
    [][\A p \in Searchers :
          /\ (IsCall(p) /\ (Ensuring(p)' \/ task'[p].pc = "failed"))
             => \/ cache' = cache
                \/ /\ task'[p].cache_key \in DOMAIN cache
                   /\ now - cache[task'[p].cache_key].timestamp > CACHE_TTL
                   /\ cache' = Without(cache, task'[p].cache_key)
          /\ (Ensuring(p) /\ (Ensuring(p)' \/ task'[p].pc = "failed"))
             => cache' = cache]_vars

\* C29 witness: a search with force_refresh failed with the authorization
\* error while the cache holds, for its key, the record an earlier search
\* wrote.
C29_Witness ==
    \E p \in Searchers :
        /\ task[p].pc = "failed"
        /\ task[p].raised = "RuntimeError"
        /\ task[p].force_refresh
        /\ "is_user_authorized" \in task[p].client_calls
        /\ last_scan.valid
        /\ last_scan.cache_key = task[p].cache_key
        /\ task[p].cache_key \in DOMAIN cache
        /\ cache[task[p].cache_key].timestamp = last_scan.at
        /\ SameResults(last_scan.results, cache[task[p].cache_key].results)

NetworkFailures ==
    {Raises("TimeoutError"), Raises("ClientConnectorError"),
     Raises("ClientError")}

\* C27: send_products retries on network errors and timeouts: a call whose
\* last attempt met a connection error or a timeout has made
\* max_retries + 1 attempts, has slept before each attempt after the
\* first, every attempt before the last met such a failure too, and it
\* returns NETWORK_ERROR.
C27_RetriesNetworkFailures ==
    (/\ shop.pc = "returned"
     /\ shop.posts # <<>>
     /\ shop.posts[Len(shop.posts)] \in NetworkFailures)
        => /\ Len(shop.posts) = max_retries + 1
           /\ Len(shop.sleeps) = max_retries
           /\ \A k \in 1..Len(shop.posts) : shop.posts[k] \in NetworkFailures
           /\ shop.returned[1].error_type = "network_error"
====
